---- MODULE Spec2Model ----
(***************************************************************************)
(* Processing-history subsystem of mkvprocessor.                           *)
(*                                                                         *)
(* HistoryManager (src/src/mkvprocessor/history_manager.py): an            *)
(* append-only JSONL log, a cached index file and two in-memory indexes.   *)
(* Several HistoryManager objects may be constructed on one directory;     *)
(* they share the files and nothing else.                                  *)
(*                                                                         *)
(* Strings of the program are TLA+ strings.  A Python dict is a function   *)
(* whose DOMAIN is the dict's key set.  A line of text is kept in parsed   *)
(* shape: a JSON object line is the sequence of its <<key, value>> pairs   *)
(* in the order json.dumps wrote them.                                     *)
(***************************************************************************)
EXTENDS Integers, Sequences, FiniteSets, TLC

VARIABLES
    history_file,   \* history/processed.jsonl : [exists, lines]
    index_file,     \* history/index.json      : [exists, kind, by_signature, by_name, updated]
    by_signature,   \* by_signature[i] : self._by_signature of instance i
    by_name,        \* by_name[i]      : self._by_name of instance i
    loaded,         \* loaded[i]       : self._loaded of instance i
    uuid_next,      \* number of uuid4() draws so far
    clock,          \* the reading datetime.utcnow() gives next; two entries
                    \* never get the same reading
    legacy_log,     \* the legacy log the imports are given : [exists, lines]
    json_logs,      \* the directory of JSON logs : [exists, files]
    merge_files,    \* the files merge_history_files is given, in list
                    \* order, each [exists, readable, lines]
    merge_out,      \* the file merge_history_files writes : [exists, lines]
    remote,         \* the log on GitHub at config.log_path :
                    \* [exists, entries, sha]
    mgr,            \* mgr[m] : RemoteSyncManager m as [log_entries, log_sha,
                    \* pending_entries, signatures], None as <<>>
    processed_signatures,
                    \* the signatures main skips in this run
    RUN_LOG_ENTRIES,
                    \* log_manager.RUN_LOG_ENTRIES, the buffer of the run
    remote_legacy,  \* Subtitles/processed_files.log on GitHub :
                    \* [exists, lines, sha]
    remote_files,   \* the other files put on GitHub : a dict from path
                    \* to content
    media,          \* media[f] : the video file f as getsize, ffprobe and
                    \* a read of its first MiB see it
    last,           \* the last call: [op, inst, val, raised, wrote]
    added,          \* history: the add_entry calls so far, in call order, as
                    \* [inst, entry, wrote]
    snap            \* history: snap[i] is the sequence of entries the load()
                    \* of instance i took from the lines of the log file

vars == <<history_file, index_file, by_signature, by_name, loaded,
          uuid_next, clock, legacy_log, json_logs, merge_files, merge_out,
          remote, mgr, processed_signatures, RUN_LOG_ENTRIES,
          remote_legacy, remote_files, media, last, added, snap>>

\* the files and objects no HistoryManager call writes
sources ==
    <<legacy_log, json_logs, merge_files, merge_out, remote, mgr,
      processed_signatures, RUN_LOG_ENTRIES, remote_legacy, remote_files,
      media>>

---------------------------------------------------------------------------
(* Bounds of the model                                                     *)

\* entries created (uuid4 draws) in one behaviour
MaxAdds == 2

(* Input alphabets                                                         *)
Inst == {1, 2}
\* the instances that write in Spec: the directory has one writer at a time
Writers == {1}
Names == {"a", "b"}
Sigs == {"s1", "s2"}
SigInputs == Sigs \cup {""}
NoMeta == [k \in {} |-> ""]

---------------------------------------------------------------------------
(* Python dicts                                                            *)

EmptyDict == [k \in {} |-> ""]

\* d[k] = v
Put(d, k, v) == [x \in (DOMAIN d) \cup {k} |-> IF x = k THEN v ELSE d[x]]

\* {**base, **over}
Merge(base, over) ==
    [x \in (DOMAIN base) \cup (DOMAIN over) |->
        IF x \in DOMAIN over THEN over[x] ELSE base[x]]

\* entry.get(key, "")
Get(entry, key) == IF key \in DOMAIN entry THEN entry[key] ELSE ""

\* a local variable: F of the value of v, with v evaluated once
With(v, F(_)) == CHOOSE r \in {F(x) : x \in {v}} : TRUE

---------------------------------------------------------------------------
(* JSON text                                                               *)

\* the order in which add_entry's dict literal and its keyword arguments
\* put the keys, which is the order json.dumps writes them
KeyOrder == <<"id", "old_name", "new_name", "signature", "timestamp",
              "imported_from", "original_timestamp", "category">>

\* a dumps that writes the five keys of the dict literal and no metadata
DumpsPairs_baseOnly(entry) ==
    LET ks == SelectSeq(SubSeq(KeyOrder, 1, 5), LAMBDA k : k \in DOMAIN entry)
    IN  [n \in 1..Len(ks) |-> <<ks[n], entry[ks[n]]>>]

\* json.dumps(entry): the pairs of the object, in key order
DumpsPairs(entry) ==
    LET ks == SelectSeq(KeyOrder, LAMBDA k : k \in DOMAIN entry)
    IN  [n \in 1..Len(ks) |-> <<ks[n], entry[ks[n]]>>]

\* json.dumps(entry, ensure_ascii=False) + "\n"
Dumps(entry) == [kind |-> "object", pairs |-> DumpsPairs(entry)]

\* json.loads of an object: a repeated key keeps its last value
LoadsPairs(pairs) ==
    LET keys == {pairs[n][1] : n \in DOMAIN pairs}
        lastAt(k) == CHOOSE n \in DOMAIN pairs :
                        /\ pairs[n][1] = k
                        /\ \A m \in DOMAIN pairs : pairs[m][1] = k => m <= n
    IN  [k \in keys |-> pairs[lastAt(k)][2]]

\* the text of a line after strip():
\*   "blank"   nothing left
\*   "garbage" json.loads raises JSONDecodeError
\*   "array"   json.loads gives a value that is not a dict
\*   "object"  json.loads gives a dict
BlankLine == [kind |-> "blank", pairs |-> <<>>]
GarbageLine == [kind |-> "garbage", pairs |-> <<>>]
ArrayLine == [kind |-> "array", pairs |-> <<>>]

---------------------------------------------------------------------------
(* HistoryManager.load                                                     *)

\* the body of the loop over the lines of processed.jsonl
LoadLine(acc, line) ==
    IF acc.raised \/ line.kind \in {"blank", "garbage"} THEN acc
    ELSE IF line.kind = "array" THEN [acc EXCEPT !.raised = TRUE]
    ELSE
        LET entry == LoadsPairs(line.pairs)
            sig == Get(entry, "signature")
            old_name == Get(entry, "old_name")
            new_name == Get(entry, "new_name")
            n1 == IF old_name # "" THEN Put(acc.by_name, old_name, sig)
                  ELSE acc.by_name
            n2 == IF new_name # "" THEN Put(n1, new_name, sig) ELSE n1
        IN  IF sig = "" THEN acc
            ELSE [acc EXCEPT !.by_signature = Put(@, sig, entry),
                             !.by_name = n2,
                             !.snap = Append(@, entry)]

RECURSIVE LoadJsonl(_, _)
LoadJsonl(acc, lines) ==
    IF lines = <<>> THEN acc
    ELSE With(LoadLine(acc, Head(lines)),
              LAMBDA a : LoadJsonl(a, Tail(lines)))

\* an index file that overrides what the log file gave
IndexMaySet_always(d, k) == TRUE

\* whether the index file may set key k of dict d
IndexMaySet(d, k) == k \notin DOMAIN d

\* the merge of index.json into what the JSONL file gave
LoadIndex(acc, index) ==
    IF acc.raised \/ index.kind = "garbage" THEN acc
    ELSE IF index.kind = "array" THEN [acc EXCEPT !.raised = TRUE]
    ELSE
        [acc EXCEPT
            !.by_signature =
                [s \in (DOMAIN @) \cup (DOMAIN index.by_signature) |->
                    IF s \in DOMAIN index.by_signature /\ IndexMaySet(@, s)
                    THEN LoadsPairs(index.by_signature[s]) ELSE @[s]],
            !.by_name =
                [n \in (DOMAIN @) \cup (DOMAIN index.by_name) |->
                    IF n \in DOMAIN index.by_name /\ IndexMaySet(@, n)
                    THEN index.by_name[n] ELSE @[n]]]

\* what load() builds from the two files
LoadFromDisk(hf, xf) ==
    LET a0 == [by_signature |-> EmptyDict, by_name |-> EmptyDict,
               raised |-> FALSE, snap |-> <<>>]
    IN  With(IF hf.exists THEN LoadJsonl(a0, hf.lines) ELSE a0,
             LAMBDA a1 : IF xf.exists THEN LoadIndex(a1, xf) ELSE a1)

\* load() without its guard: every call reads the files again
AlreadyLoaded_never(self) == FALSE

\* the guard "if self._loaded: return"
AlreadyLoaded(self) == self.loaded

\* self.load() on the object self = [by_signature, by_name, loaded, snap]
\* with the files hf and xf: the object it leaves, and whether it raised
load(self, hf, xf) ==
    IF AlreadyLoaded(self)
    THEN [by_signature |-> self.by_signature, by_name |-> self.by_name,
          loaded |-> self.loaded, snap |-> self.snap, raised |-> FALSE]
    ELSE With(LoadFromDisk(hf, xf),
              LAMBDA a : [by_signature |-> a.by_signature,
                          by_name |-> a.by_name, loaded |-> ~a.raised,
                          snap |-> a.snap, raised |-> a.raised])

\* instance i as an object
Self(i) ==
    [by_signature |-> by_signature[i], by_name |-> by_name[i],
     loaded |-> loaded[i], snap |-> snap[i]]

\* instance i becomes the object r
SetInstance(i, r) ==
    /\ by_signature' = [by_signature EXCEPT ![i] = r.by_signature]
    /\ by_name' = [by_name EXCEPT ![i] = r.by_name]
    /\ loaded' = [loaded EXCEPT ![i] = r.loaded]
    /\ snap' = [snap EXCEPT ![i] = r.snap]

\* the record of a call: its return value (None and a raise as <<>>),
\* whether it raised, whether it wrote to the log file
Call(op, i, val, raised, wrote) ==
    [op |-> op, inst |-> i, val |-> val, raised |-> raised, wrote |-> wrote]

Load(i) ==
    \E l \in {load(Self(i), history_file, index_file)} :
        /\ SetInstance(i, l)
        /\ last' = Call("load", i, <<>>, l.raised, FALSE)
        /\ UNCHANGED <<history_file, index_file, uuid_next, clock, sources, added>>

---------------------------------------------------------------------------
(* HistoryManager.save_index                                               *)

\* json.dump(index, f): the entries are written as JSON objects
IndexJson(bs, bn, now) ==
    [exists |-> TRUE, kind |-> "object",
     by_signature |-> [s \in DOMAIN bs |-> DumpsPairs(bs[s])],
     by_name |-> bn, updated |-> now]

NoIndexFile ==
    [exists |-> FALSE, kind |-> "object", by_signature |-> EmptyDict,
     by_name |-> EmptyDict, updated |-> 0]

\* save_index does not call load(): it writes the indexes as they are.
\* ok: the write succeeds; a failed open leaves the file as it was.
save_index(self, xf, now, ok) ==
    IF ok THEN IndexJson(self.by_signature, self.by_name, now) ELSE xf

\* self.ensure_dir(): the exception of history_dir.mkdir when the
\* directory cannot be created
ensure_dir(mkdir) == IF mkdir THEN "" ELSE "OSError"

\* save_index; mkdir tells whether the history directory can be created
SaveIndexIn(i, mkdir, ok) ==
    /\ index_file' = IF ensure_dir(mkdir) = ""
                     THEN save_index(Self(i), index_file, clock, ok)
                     ELSE index_file
    /\ last' = Call("save_index", i, <<>>, ensure_dir(mkdir) # "", FALSE)
    /\ UNCHANGED <<history_file, by_signature, by_name, loaded, uuid_next,
                   clock, sources, added, snap>>

\* save_index in a directory that exists or can be created
SaveIndex(i, ok) == SaveIndexIn(i, TRUE, ok)

---------------------------------------------------------------------------
(* HistoryManager.add_entry                                                *)

\* the dict add_entry builds
NewEntry(old_name, new_name, signature, metadata, id, now) ==
    Merge([k \in {"id", "old_name", "new_name", "signature", "timestamp"} |->
              CASE k = "id" -> "u" \o ToString(id)
                [] k = "old_name" -> old_name
                [] k = "new_name" -> new_name
                [] k = "signature" -> signature
                [] OTHER -> "t" \o ToString(now)],
          metadata)

\* the file opened with "w": the line replaces the file
AppendLine_truncate(hf, line) == [exists |-> TRUE, lines |-> <<line>>]

\* the append of one line to processed.jsonl
AppendLine(hf, line) ==
    [exists |-> TRUE, lines |-> Append(hf.lines, line)]

\* an index that keeps the entry it has: setdefault(signature, entry)
IndexEntry_keepFirst(bs, signature, entry) ==
    IF signature \in DOMAIN bs THEN bs ELSE Put(bs, signature, entry)

\* self._by_signature[signature] = entry
IndexEntry(bs, signature, entry) == Put(bs, signature, entry)

\* a name index that keeps the signature a name has: setdefault
IndexNames_keepFirst(bn, old_name, new_name, signature) ==
    LET n1 == IF old_name \in DOMAIN bn THEN bn ELSE Put(bn, old_name, signature)
    IN  IF new_name \in DOMAIN n1 THEN n1 ELSE Put(n1, new_name, signature)

\* an index of the new name alone
IndexNames_newOnly(bn, old_name, new_name, signature) ==
    Put(bn, new_name, signature)

\* an index of the old name alone
IndexNames_oldOnly(bn, old_name, new_name, signature) ==
    Put(bn, old_name, signature)

\* self._by_name[old_name] = signature; self._by_name[new_name] = signature
IndexNames(bn, old_name, new_name, signature) ==
    Put(Put(bn, old_name, signature), new_name, signature)

\* A call in progress: st = [inst, by_signature, by_name, loaded, snap, hf,
\* id, now, count, raised, entry, added]: the object, the log file, the uuid
\* and clock counters, the import's count, whether the call has raised, the
\* entry the last add_entry returned, and the add_entry calls so far.
Begin(i) ==
    [inst |-> i, by_signature |-> by_signature[i], by_name |-> by_name[i],
     loaded |-> loaded[i], snap |-> snap[i], hf |-> history_file,
     id |-> uuid_next, now |-> clock, count |-> 0, raised |-> FALSE,
     entry |-> <<>>, added |-> added]

\* self.load() inside a call
Loaded(st, xf) ==
    With(load(st, st.hf, xf),
         LAMBDA l : [st EXCEPT !.by_signature = l.by_signature,
                               !.by_name = l.by_name, !.loaded = l.loaded,
                               !.snap = l.snap, !.raised = l.raised])

\* an add_entry that leaves the indexes alone when its append fails
add_entry_indexWritten(st0, xf, old_name, new_name, signature, metadata, ok) ==
    LET Add(st, entry) ==
            [st EXCEPT
                !.hf = IF ok THEN AppendLine(@, Dumps(entry)) ELSE @,
                !.by_signature = IF ok THEN IndexEntry(@, signature, entry)
                                 ELSE @,
                !.by_name = IF ok
                            THEN IndexNames(@, old_name, new_name, signature)
                            ELSE @,
                !.id = @ + 1,
                !.now = @ + 1,
                !.entry = <<entry>>,
                !.added = Append(@, [inst |-> st.inst, entry |-> entry,
                                     wrote |-> ok])]
    IN  With(Loaded(st0, xf),
             LAMBDA st :
                IF st.raised THEN st
                ELSE With(NewEntry(old_name, new_name, signature, metadata,
                                   st.id, st.now),
                          LAMBDA entry : Add(st, entry)))

\* add_entry; ok tells whether the append succeeds (a failure is logged)
add_entry(st0, xf, old_name, new_name, signature, metadata, ok) ==
    LET Add(st, entry) ==
            [st EXCEPT
                !.hf = IF ok THEN AppendLine(@, Dumps(entry)) ELSE @,
                !.by_signature = IndexEntry(@, signature, entry),
                !.by_name = IndexNames(@, old_name, new_name, signature),
                !.id = @ + 1,
                !.now = @ + 1,
                !.entry = <<entry>>,
                !.added = Append(@, [inst |-> st.inst, entry |-> entry,
                                     wrote |-> ok])]
    IN  With(Loaded(st0, xf),
             LAMBDA st :
                IF st.raised THEN st
                ELSE With(NewEntry(old_name, new_name, signature, metadata,
                                   st.id, st.now),
                          LAMBDA entry : Add(st, entry)))

\* the call's effect on the object, the log file and the counters
Finish(i, st) ==
    /\ SetInstance(i, st)
    /\ history_file' = st.hf
    /\ uuid_next' = st.id
    /\ clock' = st.now
    /\ added' = st.added

\* add_entry; mkdir tells whether the history directory can be created:
\* ensure_dir comes after load() and before anything else
AddEntryIn(i, old_name, new_name, signature, mkdir, ok) ==
    IF ensure_dir(mkdir) = ""
    THEN \E st \in {add_entry(Begin(i), index_file, old_name, new_name,
                              signature, NoMeta, ok)} :
            /\ uuid_next < MaxAdds
            /\ Finish(i, st)
            /\ last' = Call("add_entry", i, st.entry, st.raised,
                            ok /\ ~st.raised)
            /\ UNCHANGED <<index_file, sources>>
    ELSE \E l \in {load(Self(i), history_file, index_file)} :
            /\ SetInstance(i, l)
            /\ last' = Call("add_entry", i, <<>>, TRUE, FALSE)
            /\ UNCHANGED <<history_file, index_file, uuid_next, clock,
                           sources, added>>

\* add_entry in a directory that exists or can be created
AddEntry(i, old_name, new_name, signature, ok) ==
    AddEntryIn(i, old_name, new_name, signature, TRUE, ok)

---------------------------------------------------------------------------
(* Lookups: each begins with self.load()                                   *)

has_signature(bs, signature) == signature \in DOMAIN bs

has_name(bn, name) == name \in DOMAIN bn

\* self._by_signature.get(signature), None as <<>>
get_by_signature(bs, signature) ==
    IF signature \in DOMAIN bs THEN <<bs[signature]>> ELSE <<>>

\* "if sig:" is false for the empty string
get_by_name(bs, bn, name) ==
    IF name \in DOMAIN bn /\ bn[name] # ""
    THEN get_by_signature(bs, bn[name]) ELSE <<>>

\* list(self._by_signature.values()), as a set of entries
get_all_entries(bs) == {bs[s] : s \in DOMAIN bs}

get_all_signatures(bs) == DOMAIN bs

\* any lookup (has_signature, has_name, get_by_signature, get_by_name,
\* get_all_entries, get_all_signatures, get_all_names): self.load(), then a
\* read of the indexes, which the operators above give
Lookup(i) ==
    \E l \in {load(Self(i), history_file, index_file)} :
        /\ SetInstance(i, l)
        /\ last' = Call("lookup", i, <<>>, l.raised, FALSE)
        /\ UNCHANGED <<history_file, index_file, uuid_next, clock, sources, added>>

---------------------------------------------------------------------------
(* HistoryManager.import_legacy_log                                        *)

\* A legacy line is the sequence line.strip().split("|") gives: the text
\* between the pipes.

\* a synthetic signature that is the old name itself
SyntheticSignature_bare(old_name) == old_name

\* f"legacy_{old_name}"
SyntheticSignature(old_name) == "legacy_" \o old_name

\* the loop body: one line of the legacy log
ImportLegacyLine(st, xf, parts, ok) ==
    IF st.raised \/ Len(parts) < 2 THEN st
    ELSE
        LET old_name == parts[1]
            new_name == parts[2]
            timestamp == IF Len(parts) > 2 THEN parts[3] ELSE ""
            signature == IF Len(parts) > 3 THEN parts[4] ELSE ""
            metadata == [k \in {"imported_from", "original_timestamp"} |->
                            IF k = "imported_from" THEN "legacy_log"
                            ELSE timestamp]
            Import(l) ==
                IF l.raised THEN l
                ELSE IF signature # ""
                        /\ ~has_signature(l.by_signature, signature)
                THEN [add_entry(l, xf, old_name, new_name, signature,
                                metadata, ok) EXCEPT !.count = @ + 1]
                ELSE IF signature = "" /\ ~has_name(l.by_name, old_name)
                THEN [add_entry(l, xf, old_name, new_name,
                                SyntheticSignature(old_name), metadata, ok)
                        EXCEPT !.count = @ + 1]
                ELSE l
            \* has_signature / has_name begin with self.load()
        IN  With(Loaded(st, xf), LAMBDA l : Import(l))

RECURSIVE ImportLegacyLines(_, _, _, _)
ImportLegacyLines(st, xf, lines, ok) ==
    IF lines = <<>> THEN st
    ELSE With(ImportLegacyLine(st, xf, Head(lines), ok),
              LAMBDA s : ImportLegacyLines(s, xf, Tail(lines), ok))

\* the call up to "if count > 0"; log = [exists, lines]
import_legacy_log(st, xf, log, ok) ==
    IF ~log.exists THEN st ELSE ImportLegacyLines(st, xf, log.lines, ok)

\* "if count > 0: self.save_index()", which both imports end with
SaveIfCounted(st, xf, okx) ==
    IF ~st.raised /\ st.count > 0 THEN save_index(st, xf, st.now, okx) ELSE xf

\* ok: the appends of this call succeed; okx: its save_index succeeds
ImportLegacyLog(i, ok, okx) ==
    \E st \in {import_legacy_log(Begin(i), index_file, legacy_log, ok)} :
        /\ st.id <= MaxAdds
        /\ Finish(i, st)
        /\ index_file' = SaveIfCounted(st, index_file, okx)
        /\ last' = Call("import_legacy_log", i,
                        IF st.raised THEN <<>> ELSE <<st.count>>, st.raised,
                        ok /\ st.count > 0)
        /\ UNCHANGED sources

---------------------------------------------------------------------------
(* HistoryManager.import_json_logs                                         *)

\* A file of the directory is [name, kind, items]: kind "list" when
\* json.load gives a list (items: its elements, each in the shape of a
\* line), "object" when it gives a dict, "garbage" when it raises
\* JSONDecodeError.

\* one element of a file's list
ImportJsonItem(st, xf, name, item, ok) ==
    IF st.raised THEN st
    ELSE IF item.kind # "object" THEN [st EXCEPT !.raised = TRUE]
    ELSE
        LET entry == LoadsPairs(item.pairs)
            sig == Get(entry, "signature")
            metadata ==
                [k \in {"imported_from", "original_timestamp", "category"} |->
                    CASE k = "imported_from" -> name
                      [] k = "original_timestamp" -> Get(entry, "timestamp")
                      [] OTHER -> IF "category" \in DOMAIN entry
                                  THEN entry["category"] ELSE "video"]
        IN  IF sig = "" THEN st
            ELSE With(Loaded(st, xf),
                      LAMBDA l :
                        IF l.raised \/ has_signature(l.by_signature, sig)
                        THEN l
                        ELSE [add_entry(l, xf, Get(entry, "old_name"),
                                        Get(entry, "new_name"), sig, metadata,
                                        ok)
                                EXCEPT !.count = @ + 1])

RECURSIVE ImportJsonItems(_, _, _, _, _)
ImportJsonItems(st, xf, name, items, ok) ==
    IF items = <<>> THEN st
    ELSE With(ImportJsonItem(st, xf, name, Head(items), ok),
              LAMBDA s : ImportJsonItems(s, xf, name, Tail(items), ok))

\* one file of the directory
ImportJsonFile(st, xf, file, ok) ==
    IF st.raised \/ file.kind # "list" THEN st
    ELSE ImportJsonItems(st, xf, file.name, file.items, ok)

RECURSIVE ImportJsonFiles(_, _, _, _)
ImportJsonFiles(st, xf, files, ok) ==
    IF files = <<>> THEN st
    ELSE With(ImportJsonFile(st, xf, Head(files), ok),
              LAMBDA s : ImportJsonFiles(s, xf, Tail(files), ok))

\* the call up to "if count > 0"; dir = [exists, files], the files in the
\* order glob yields them
import_json_logs(st, xf, dir, ok) ==
    IF ~dir.exists THEN st ELSE ImportJsonFiles(st, xf, dir.files, ok)

ImportJsonLogs(i, ok, okx) ==
    \E st \in {import_json_logs(Begin(i), index_file, json_logs, ok)} :
        /\ st.id <= MaxAdds
        /\ Finish(i, st)
        /\ index_file' = SaveIfCounted(st, index_file, okx)
        /\ last' = Call("import_json_logs", i,
                        IF st.raised THEN <<>> ELSE <<st.count>>, st.raised,
                        ok /\ st.count > 0)
        /\ UNCHANGED sources

---------------------------------------------------------------------------
(* Inputs of the imports                                                   *)

\* lines of a legacy log and elements of a JSON log: at most this many
MaxLegacy == 2
MaxItems == 2

RECURSIVE SeqsUpTo(_, _)
SeqsUpTo(S, n) ==
    IF n = 0 THEN {<<>>}
    ELSE LET shorter == SeqsUpTo(S, n - 1)
         IN  shorter \cup {Append(q, x) : q \in shorter, x \in S}

\* old|new|timestamp|signature with the last two optional; "b" alone has
\* fewer than two fields
LegacyLines ==
    {<<"a", "b", "t9", "s1">>, <<"b", "a", "t8", "s1">>, <<"a", "b">>,
     <<"a", "a", "t9">>, <<"b">>}

LegacyLogs ==
    {[exists |-> FALSE, lines |-> <<>>]} \cup
    {[exists |-> TRUE, lines |-> q] : q \in SeqsUpTo(LegacyLines, MaxLegacy)}

ObjectLine(pairs) == [kind |-> "object", pairs |-> pairs]

\* elements of a file's list: three objects and one that is not an object
JsonItems ==
    {ObjectLine(<<<<"old_name", "a">>, <<"new_name", "b">>,
                  <<"signature", "s1">>, <<"timestamp", "t9">>,
                  <<"category", "subtitle">>>>),
     ObjectLine(<<<<"old_name", "b">>, <<"new_name", "a">>,
                  <<"signature", "s1">>>>),
     ObjectLine(<<<<"old_name", "a">>, <<"new_name", "b">>>>),
     ArrayLine}

JsonFiles ==
    {[name |-> "run.json", kind |-> "list", items |-> q] :
        q \in SeqsUpTo(JsonItems, MaxItems)}

OtherJsonFiles ==
    {[name |-> "bad.json", kind |-> "garbage", items |-> <<>>],
     [name |-> "old.json", kind |-> "list",
      items |-> <<ObjectLine(<<<<"old_name", "b">>, <<"new_name", "b">>,
                               <<"signature", "s2">>>>)>>]}

JsonDirs ==
    {[exists |-> FALSE, files |-> <<>>]} \cup
    {[exists |-> TRUE, files |-> <<f>>] : f \in JsonFiles} \cup
    {[exists |-> TRUE, files |-> <<g, f>>] : g \in OtherJsonFiles,
                                             f \in JsonFiles}

---------------------------------------------------------------------------
(* One directory, empty at first; the objects as __init__ leaves them      *)

NoHistoryFile == [exists |-> FALSE, lines |-> <<>>]

Constructed ==
    /\ by_signature = [i \in Inst |-> EmptyDict]
    /\ by_name = [i \in Inst |-> EmptyDict]
    /\ loaded = [i \in Inst |-> FALSE]
    /\ uuid_next = 0
    /\ clock = 0
    /\ last = Call("__init__", 1, <<>>, FALSE, FALSE)
    /\ added = <<>>
    /\ snap = [i \in Inst |-> <<>>]

\* the RemoteSyncManagers of the model
Managers == {1, 2}

\* RemoteSyncManager.__init__
NewManager ==
    [log_entries |-> <<>>, log_sha |-> <<>>, pending_entries |-> <<>>,
     signatures |-> EmptyDict]

NoRemoteLog == [exists |-> FALSE, entries |-> <<>>, sha |-> 0]

\* remote sync is not configured
NoRemote ==
    /\ remote = NoRemoteLog
    /\ mgr = [m \in Managers |-> NewManager]

\* main has not run
NoRun ==
    /\ processed_signatures = {}
    /\ RUN_LOG_ENTRIES = <<>>

\* no legacy log and no other file on GitHub
NoRemoteLegacy == [exists |-> FALSE, lines |-> <<>>, sha |-> 0]

NoRemoteFiles ==
    /\ remote_legacy = NoRemoteLegacy
    /\ remote_files = EmptyDict

\* no file is probed
NoProbe == media = <<>>

\* no merge is asked for
NoMerge ==
    /\ merge_files = <<>>
    /\ merge_out = NoHistoryFile

\* the calls a client makes, with add_entry's arguments drawn from adds
Calls(adds) ==
    \/ \E i \in Inst : Load(i)
    \/ \E i \in Inst : Lookup(i)
    \/ \E i \in Writers, ok \in BOOLEAN : SaveIndex(i, ok)
    \/ \E i \in Writers, a \in adds, ok \in BOOLEAN :
          AddEntry(i, a[1], a[2], a[3], ok)
    \/ \E i \in Writers, ok \in BOOLEAN, okx \in BOOLEAN :
          ImportLegacyLog(i, ok, okx)
    \/ \E i \in Writers, ok \in BOOLEAN, okx \in BOOLEAN :
          ImportJsonLogs(i, ok, okx)

\* Spec: an empty history directory, one legacy log and one directory of
\* JSON logs to import, every add_entry argument
LegacySample ==
    [exists |-> TRUE, lines |-> <<<<"a", "b">>, <<"b", "a", "t8", "s1">>>>]

JsonSample ==
    [exists |-> TRUE,
     files |-> <<[name |-> "run.json", kind |-> "list",
                  items |-> <<ObjectLine(<<<<"old_name", "a">>,
                                           <<"new_name", "b">>,
                                           <<"signature", "s2">>,
                                           <<"timestamp", "t9">>>>)>>]>>]

Init ==
    /\ history_file = NoHistoryFile
    /\ index_file = NoIndexFile
    /\ legacy_log = LegacySample
    /\ json_logs = JsonSample
    /\ Constructed
    /\ NoRun
    /\ NoProbe
    /\ NoRemoteFiles
    /\ NoMerge
    /\ NoRemote

Next == Calls(Names \X Names \X SigInputs)

Spec == Init /\ [][Next]_vars

\* SpecImport: an empty history directory, any legacy log or any directory
\* of JSON logs to import, few add_entry arguments
InitImport ==
    /\ history_file = NoHistoryFile
    /\ index_file = NoIndexFile
    /\ \/ /\ legacy_log \in LegacyLogs
          /\ json_logs = [exists |-> FALSE, files |-> <<>>]
       \/ /\ legacy_log = [exists |-> FALSE, lines |-> <<>>]
          /\ json_logs \in JsonDirs
    /\ Constructed
    /\ NoRun
    /\ NoProbe
    /\ NoRemoteFiles
    /\ NoMerge
    /\ NoRemote

NextImport == Calls({<<"a", "b", "s1">>, <<"b", "a", "legacy_a">>})

SpecImport == InitImport /\ [][NextImport]_vars

\* SpecLoad: a history directory whose log file holds any lines, valid or
\* not, as a crash, an editor or another program may leave them
MaxLines == 3

LineSamples ==
    {BlankLine, GarbageLine, ArrayLine,
     ObjectLine(<<<<"id", "u8">>, <<"old_name", "a">>, <<"new_name", "b">>,
                  <<"signature", "s1">>, <<"timestamp", "t8">>>>),
     ObjectLine(<<<<"old_name", "b">>, <<"new_name", "a">>,
                  <<"signature", "s2">>>>),
     ObjectLine(<<<<"old_name", "a">>, <<"new_name", "b">>>>)}

IndexSamples ==
    {NoIndexFile,
     IndexJson([s \in {"s1"} |->
                   [k \in {"old_name", "new_name", "signature"} |->
                       IF k = "signature" THEN "s1" ELSE "b"]],
               [n \in {"b"} |-> "s1"], 0)}

InitLoad ==
    /\ history_file \in
          {[exists |-> TRUE, lines |-> q] : q \in SeqsUpTo(LineSamples, MaxLines)}
    /\ index_file \in IndexSamples
    /\ legacy_log = [exists |-> FALSE, lines |-> <<>>]
    /\ json_logs = [exists |-> FALSE, files |-> <<>>]
    /\ Constructed
    /\ NoRun
    /\ NoProbe
    /\ NoRemoteFiles
    /\ NoMerge
    /\ NoRemote

NextLoad == Calls({<<"a", "b", "s1">>})

SpecLoad == InitLoad /\ [][NextLoad]_vars

\* HistoryManager(base_dir): a new object takes the place of object i, as
\* when a process ends and another one starts on the same directory
Construct(i) ==
    /\ SetInstance(i, [by_signature |-> EmptyDict, by_name |-> EmptyDict,
                       loaded |-> FALSE, snap |-> <<>>])
    /\ last' = Call("__init__", i, <<>>, FALSE, FALSE)
    /\ UNCHANGED <<history_file, index_file, uuid_next, clock, sources,
                   added>>

\* what the two objects add: two signatures for the same two names, and
\* an entry without a signature
TwoAdds == {<<"a", "b", "s1">>, <<"b", "a", "s2">>, <<"a", "a", "">>}

\* SpecTwo: two objects that both write to one directory, empty at first;
\* each may be replaced by a new object at any time
NextTwo ==
    \/ \E i \in Inst : Construct(i)
    \/ \E i \in Inst : Load(i)
    \/ \E i \in Inst, ok \in BOOLEAN : SaveIndex(i, ok)
    \/ \E i \in Inst, a \in TwoAdds, ok \in BOOLEAN :
          AddEntry(i, a[1], a[2], a[3], ok)

InitTwo ==
    /\ history_file = NoHistoryFile
    /\ index_file = NoIndexFile
    /\ legacy_log = [exists |-> FALSE, lines |-> <<>>]
    /\ json_logs = [exists |-> FALSE, files |-> <<>>]
    /\ Constructed
    /\ NoRun
    /\ NoProbe
    /\ NoRemoteFiles
    /\ NoMerge
    /\ NoRemote

SpecTwo == InitTwo /\ [][NextTwo]_vars

\* SpecDisk: the same directory on a disk where the history directory may
\* be impossible to create (read-only or full disk, a file of that name)
NextDisk ==
    \/ NextLoad
    \/ \E i \in Writers : SaveIndexIn(i, FALSE, TRUE)
    \/ \E i \in Writers : AddEntryIn(i, "a", "b", "s1", FALSE, TRUE)

SpecDisk == InitLoad /\ [][NextDisk]_vars

---------------------------------------------------------------------------
(* convert_legacy_log_file (src/src/mkvprocessor/log_manager.py)           *)

\* the readings of utcnow(), to the second, that name a converted file
Seconds == {"1", "2"}

\* what the file system does to one call:
\*   "ok"            every step succeeds
\*   "read_error"    read_text raises OSError
\*   "decode_error"  read_text raises UnicodeDecodeError
\*   "mkdir_error"   logs_dir.mkdir raises
\*   "open_error"    write_text raises before the file is created
\*   "write_error"   write_text raises after the file is created
\*   "unlink_error"  log_path.unlink raises
ConvertOutcomes ==
    {"ok", "read_error", "decode_error", "mkdir_error", "open_error",
     "write_error", "unlink_error"}

\* the dict built from the fields of one line
ConvertLine(parts, sec) ==
    ObjectLine(<<<<"old_name", parts[1]>>,
                 <<"new_name", parts[2]>>,
                 <<"timestamp", IF Len(parts) > 2 THEN parts[3] ELSE "t" \o sec>>,
                 <<"signature", IF Len(parts) > 3 THEN parts[4] ELSE "">>,
                 <<"category", "video">>>>)

\* the loop over the lines: lines of fewer than two fields are skipped
ConvertEntries(lines, sec) ==
    LET kept == SelectSeq(lines, LAMBDA parts : Len(parts) >= 2)
    IN  [k \in 1..Len(kept) |-> ConvertLine(kept[k], sec)]

\* logs_dir.mkdir(parents=True, exist_ok=True)
Mkdir(dir) == [dir EXCEPT !.exists = TRUE]

\* a file written into the directory: it replaces the file of its name
WriteFile(dir, file) ==
    IF \E k \in DOMAIN dir.files : dir.files[k].name = file.name
    THEN [dir EXCEPT !.files =
            [k \in DOMAIN @ |-> IF @[k].name = file.name THEN file ELSE @[k]]]
    ELSE [dir EXCEPT !.files = Append(@, file)]

\* a legacy file that stays where it is
Unlink_keep(log) == log

\* log_path.unlink(missing_ok=True)
Unlink(log) == [exists |-> FALSE, lines |-> <<>>]

\* the call: the legacy file and the directory it leaves, the path it
\* returns (None as <<>>) and whether it raised
convert_legacy_log_file(log, dir, sec, out) ==
    LET entries == ConvertEntries(log.lines, sec)
        name == "legacy_" \o sec \o ".json"
        Result(l, d, val, raised) ==
            [log |-> l, dir |-> d, val |-> val, raised |-> raised]
    IN  IF ~log.exists THEN Result(log, dir, <<>>, FALSE)
        ELSE IF out = "read_error" THEN Result(log, dir, <<>>, FALSE)
        ELSE IF out = "decode_error" THEN Result(log, dir, <<>>, TRUE)
        ELSE IF entries = <<>> THEN Result(log, dir, <<>>, FALSE)
        ELSE IF out = "mkdir_error" THEN Result(log, dir, <<>>, TRUE)
        ELSE IF out = "open_error" THEN Result(log, Mkdir(dir), <<>>, TRUE)
        ELSE IF out = "write_error"
        THEN Result(log,
                    WriteFile(Mkdir(dir), [name |-> name, kind |-> "garbage",
                                           items |-> <<>>]),
                    <<>>, TRUE)
        ELSE With(WriteFile(Mkdir(dir), [name |-> name, kind |-> "list",
                                         items |-> entries]),
                  LAMBDA d :
                    IF out = "unlink_error" THEN Result(log, d, <<>>, TRUE)
                    ELSE Result(Unlink(log), d, <<name>>, FALSE))

ConvertLegacyLogFile(sec, out) ==
    \E r \in {convert_legacy_log_file(legacy_log, json_logs, sec, out)} :
        /\ legacy_log' = r.log
        /\ json_logs' = r.dir
        /\ last' = Call("convert_legacy_log_file", 1, r.val, r.raised, FALSE)
        /\ UNCHANGED <<history_file, index_file, by_signature, by_name,
                       loaded, uuid_next, clock, added, snap, merge_files,
                       merge_out, remote, mgr, processed_signatures,
                       RUN_LOG_ENTRIES, remote_legacy, remote_files, media>>

\* SpecConvert: any legacy log, an empty or missing directory of JSON logs,
\* an empty history directory; conversions, imports of the directory and
\* lookups
InitConvert ==
    /\ history_file = NoHistoryFile
    /\ index_file = NoIndexFile
    /\ legacy_log \in LegacyLogs
    /\ json_logs \in {[exists |-> e, files |-> <<>>] : e \in BOOLEAN}
    /\ Constructed
    /\ NoRun
    /\ NoProbe
    /\ NoRemoteFiles
    /\ NoMerge
    /\ NoRemote

NextConvert ==
    \/ \E sec \in Seconds, out \in ConvertOutcomes :
          ConvertLegacyLogFile(sec, out)
    \/ \E ok \in BOOLEAN, okx \in BOOLEAN : ImportJsonLogs(1, ok, okx)
    \/ \E i \in Inst : Lookup(i)

SpecConvert == InitConvert /\ [][NextConvert]_vars

---------------------------------------------------------------------------
(* merge_history_files (src/src/mkvprocessor/history_manager.py)           *)

\* the timestamps of the entries to merge, in the order of str's "<"
TimestampOrder == <<"", "t1", "t2">>

Rank(t) == CHOOSE k \in DOMAIN TimestampOrder : TimestampOrder[k] = t

\* key=lambda x: x.get("timestamp", "")
SortKey(entry) == Get(entry, "timestamp")

\* the body of the loop over the lines of one file;
\* acc = [seen, entries, raised]
MergeLine(acc, line) ==
    IF acc.raised \/ line.kind \in {"blank", "garbage"} THEN acc
    ELSE IF line.kind = "array" THEN [acc EXCEPT !.raised = TRUE]
    ELSE With(LoadsPairs(line.pairs),
              LAMBDA entry :
                IF Get(entry, "signature") # ""
                   /\ Get(entry, "signature") \notin acc.seen
                THEN [acc EXCEPT !.seen = @ \cup {Get(entry, "signature")},
                                 !.entries = Append(@, entry)]
                ELSE acc)

RECURSIVE MergeLines(_, _)
MergeLines(acc, lines) ==
    IF lines = <<>> THEN acc
    ELSE With(MergeLine(acc, Head(lines)),
              LAMBDA a : MergeLines(a, Tail(lines)))

\* one file of the list: a missing file and a file that cannot be opened
\* are skipped
MergeFile(acc, file) ==
    IF acc.raised \/ ~file.exists \/ ~file.readable THEN acc
    ELSE MergeLines(acc, file.lines)

RECURSIVE MergeFiles(_, _)
MergeFiles(acc, files) ==
    IF files = <<>> THEN acc
    ELSE With(MergeFile(acc, Head(files)),
              LAMBDA a : MergeFiles(a, Tail(files)))

\* a sort that puts an entry before the entries of its timestamp
InsertSorted_unstable(sorted, e) ==
    LET n == Cardinality({k \in DOMAIN sorted :
                            Rank(SortKey(sorted[k])) < Rank(SortKey(e))})
    IN  SubSeq(sorted, 1, n) \o <<e>> \o SubSeq(sorted, n + 1, Len(sorted))

\* list.sort is stable: an entry goes after the entries whose key is not
\* greater than its own
InsertSorted(sorted, e) ==
    LET n == Cardinality({k \in DOMAIN sorted :
                            Rank(SortKey(sorted[k])) <= Rank(SortKey(e))})
    IN  SubSeq(sorted, 1, n) \o <<e>> \o SubSeq(sorted, n + 1, Len(sorted))

\* entries.sort(key=...)
RECURSIVE SortEntries(_, _)
SortEntries(sorted, entries) ==
    IF entries = <<>> THEN sorted
    ELSE With(InsertSorted(sorted, Head(entries)),
              LAMBDA q : SortEntries(q, Tail(entries)))

\* the output file opened with "w" and written line by line; outcome:
\*   "ok"           every write succeeds
\*   "open_error"   open raises: the file is as it was
\*   "write_error"  a write raises after n lines
MergeOutcomes == {"ok", "open_error", "write_error"}

WriteMerged(out_file, entries, outcome, n) ==
    LET text == [k \in DOMAIN entries |-> Dumps(entries[k])]
    IN  CASE outcome = "ok" -> [exists |-> TRUE, lines |-> text]
          [] outcome = "open_error" -> out_file
          [] OTHER ->
               [exists |-> TRUE,
                lines |-> SubSeq(text, 1, IF n < Len(text) THEN n ELSE Len(text))]

\* the call: the output file it leaves, the count it returns, whether it
\* raised, whether it wrote the whole output
merge_history_files(files, out_file, outcome, n) ==
    With(MergeFiles([seen |-> {}, entries |-> <<>>, raised |-> FALSE], files),
         LAMBDA acc :
            IF acc.raised
            THEN [out |-> out_file, val |-> <<>>, raised |-> TRUE,
                  wrote |-> FALSE]
            ELSE With(SortEntries(<<>>, acc.entries),
                      LAMBDA entries :
                        [out |-> WriteMerged(out_file, entries, outcome, n),
                         val |-> IF outcome = "ok" THEN <<Len(entries)>>
                                 ELSE <<0>>,
                         raised |-> FALSE,
                         wrote |-> outcome = "ok"]))

MergeHistoryFiles(outcome, n) ==
    \E r \in {merge_history_files(merge_files, merge_out, outcome, n)} :
        /\ merge_out' = r.out
        /\ last' = Call("merge_history_files", 1, r.val, r.raised, r.wrote)
        /\ UNCHANGED <<history_file, index_file, by_signature, by_name,
                       loaded, uuid_next, clock, legacy_log, json_logs,
                       merge_files, remote, mgr, processed_signatures,
                       RUN_LOG_ENTRIES, remote_legacy, remote_files, media,
                       added, snap>>

\* SpecMerge: any list of files to merge, an output file that is missing or
\* holds an old line
MaxMergeFiles == 2
MaxMergeLines == 2

MergeEntry(old_name, signature, timestamp) ==
    ObjectLine(<<<<"old_name", old_name>>, <<"new_name", old_name>>,
                 <<"signature", signature>>, <<"timestamp", timestamp>>>>)

MergeLineSamples ==
    {BlankLine, GarbageLine, ArrayLine,
     MergeEntry("a", "s1", "t2"), MergeEntry("b", "s1", "t1"),
     MergeEntry("a", "s2", "t1"),
     ObjectLine(<<<<"old_name", "b">>, <<"signature", "s2">>>>),
     ObjectLine(<<<<"old_name", "a">>, <<"timestamp", "t1">>>>)}

MergeInputs ==
    {[exists |-> FALSE, readable |-> FALSE, lines |-> <<>>],
     [exists |-> TRUE, readable |-> FALSE, lines |-> <<>>]} \cup
    {[exists |-> TRUE, readable |-> TRUE, lines |-> q] :
        q \in SeqsUpTo(MergeLineSamples, MaxMergeLines)}

InitMerge ==
    /\ history_file = NoHistoryFile
    /\ index_file = NoIndexFile
    /\ legacy_log = [exists |-> FALSE, lines |-> <<>>]
    /\ json_logs = [exists |-> FALSE, files |-> <<>>]
    /\ merge_files \in SeqsUpTo(MergeInputs, MaxMergeFiles)
    /\ merge_out \in {NoHistoryFile,
                      [exists |-> TRUE,
                       lines |-> <<MergeEntry("b", "s2", "t2")>>]}
    /\ Constructed
    /\ NoRun
    /\ NoProbe
    /\ NoRemoteFiles
    /\ NoRemote

NextMerge ==
    \E outcome \in MergeOutcomes, n \in 0..1 : MergeHistoryFiles(outcome, n)

SpecMerge == InitMerge /\ [][NextMerge]_vars

---------------------------------------------------------------------------
(* GitHubClient and RemoteSyncManager (src/src/mkvprocessor/github_sync.py) *)

\* everything but the remote log, the managers and the last call
local ==
    <<history_file, index_file, by_signature, by_name, loaded, uuid_next,
      clock, legacy_log, json_logs, merge_files, merge_out, added, snap,
      processed_signatures, RUN_LOG_ENTRIES, remote_legacy, remote_files,
      media>>

\* an entry of the remote log: a dict with a category and a signature
RemoteEntry(category, signature) ==
    [k \in {"category", "signature"} |->
        IF k = "category" THEN category ELSE signature]

\* entry.get("signature"), None as the empty string
SignatureOf(entry) == Get(entry, "signature")

\* entry.get("category")
CategoryOf(entry) == Get(entry, "category")

\* a comprehension that takes the entries of every category
VideoSignatures_anyCategory(entries) ==
    [sig \in {SignatureOf(entries[k]) : k \in DOMAIN entries} \ {""} |->
        entries[CHOOSE k \in DOMAIN entries : SignatureOf(entries[k]) = sig]]

\* the dict comprehension of load_remote_logs: the video entries with a
\* signature, a signature that occurs twice keeps its last entry
VideoSignatures(entries) ==
    LET at == {k \in DOMAIN entries :
                 CategoryOf(entries[k]) = "video" /\ SignatureOf(entries[k]) # ""}
        lastAt(sig) == CHOOSE k \in at :
                          /\ SignatureOf(entries[k]) = sig
                          /\ \A j \in at : SignatureOf(entries[j]) = sig => j <= k
    IN  [sig \in {SignatureOf(entries[k]) : k \in at} |-> entries[lastAt(sig)]]

\* what the network does to a request:
\*   "ok"             the request reaches GitHub and the answer comes back
\*   "lost_request"   requests raises before GitHub has the request
\*   "lost_response"  GitHub handles the request, requests raises (timeout)
NetOutcomes == {"ok", "lost_request", "lost_response"}

\* GitHubClient.get_content: (content, sha), (None, None) on a 404
get_content(log) ==
    IF log.exists THEN [content |-> <<log.entries>>, sha |-> <<log.sha>>]
    ELSE [content |-> <<>>, sha |-> <<>>]

\* a load that starts from an empty list when its request fails
load_remote_logs_reset(self, log, net) ==
    IF net # "ok"
    THEN [self EXCEPT !.log_entries = <<>>, !.signatures = EmptyDict]
    ELSE With(get_content(log),
              LAMBDA got :
                With(IF got.content = <<>> THEN <<>> ELSE got.content[1],
                     LAMBDA entries :
                        [self EXCEPT !.log_sha = got.sha,
                                     !.log_entries = entries,
                                     !.signatures = VideoSignatures(entries)]))

\* load_remote_logs on manager self
load_remote_logs(self, log, net) ==
    IF net # "ok" THEN self
    ELSE With(get_content(log),
              LAMBDA got :
                With(IF got.content = <<>> THEN <<>> ELSE got.content[1],
                     LAMBDA entries :
                        [self EXCEPT !.log_sha = got.sha,
                                     !.log_entries = entries,
                                     !.signatures = VideoSignatures(entries)]))

\* a server that takes any write
PutAccepted_always(log, sha) == TRUE

\* the contents API on PUT: a new file takes no sha, an update needs the
\* sha of the file it replaces (409 or 422 otherwise)
PutAccepted(log, sha) ==
    IF log.exists THEN sha = <<log.sha>> ELSE sha = <<>>

\* the log after an accepted PUT; the new sha is one never given before
PutContent(log, entries) ==
    [exists |-> TRUE, entries |-> entries, sha |-> log.sha + 1]

\* the video branch of record_entry
RecordVideo(self, entry) ==
    IF SignatureOf(entry) # "" /\ SignatureOf(entry) \in DOMAIN self.signatures THEN self
    ELSE [self EXCEPT !.signatures = Put(@, SignatureOf(entry), entry),
                      !.pending_entries = Append(@, entry)]

\* a record_entry that takes every entry for a video
record_entry_allVideo(self, entry) == RecordVideo(self, entry)

\* record_entry without a local file
record_entry(self, entry) ==
    IF CategoryOf(entry) = "video" THEN RecordVideo(self, entry)
    ELSE [self EXCEPT !.pending_entries = Append(@, entry)]

\* a flush that keeps its queue after the write
FlushDone_keepQueue(self, merged_entries, new_sha) ==
    [self EXCEPT !.log_entries = merged_entries, !.log_sha = <<new_sha>>]

\* the three assignments that follow put_content
FlushDone(self, merged_entries, new_sha) ==
    [self EXCEPT !.log_entries = merged_entries,
                 !.log_sha = <<new_sha>>,
                 !.pending_entries = <<>>]

\* flush on manager self: the manager and the log it leaves, and whether
\* put_content returned
flush(self, log, net) ==
    LET merged_entries == self.log_entries \o self.pending_entries
        Result(m, l, wrote) == [self |-> m, log |-> l, wrote |-> wrote]
    IN  IF self.pending_entries = <<>> THEN Result(self, log, FALSE)
        ELSE IF net = "lost_request" \/ ~PutAccepted(log, self.log_sha)
        THEN Result(self, log, FALSE)
        ELSE With(PutContent(log, merged_entries),
                  LAMBDA l :
                    IF net = "lost_response" THEN Result(self, l, FALSE)
                    ELSE Result(FlushDone(self, merged_entries, l.sha), l,
                                TRUE))

\* the exception a request ends with, "" when it returns: _request raises
\* RuntimeError on a status of 400 and more, requests raises a
\* RequestException on a timeout or a connection error
RequestError(net) ==
    CASE net = "ok" -> ""
      [] net = "http_error" -> "RuntimeError"
      [] OTHER -> "RequestException"

\* except (RuntimeError, requests.RequestException)
RequestErrors == {"RuntimeError", "RequestException"}

\* an exception leaves a try statement whose except clause names caught
Propagates(exc, caught) == exc # "" /\ exc \notin caught

\* what load_remote_logs returns when it leaves the manager as self: []
\* from the except clause, self.log_entries otherwise
LoadReturns(self, net) == IF net # "ok" THEN <<>> ELSE self.log_entries

LoadRemoteLogs(m, net) ==
    \E self \in {load_remote_logs(mgr[m], remote, net)} :
        /\ mgr' = [mgr EXCEPT ![m] = self]
        /\ last' = Call("load_remote_logs", m, <<LoadReturns(self, net)>>,
                        Propagates(RequestError(net), RequestErrors), FALSE)
    /\ UNCHANGED <<remote, local>>

\* entries a manager holds, loaded and queued: at most this many
MaxHeld == 3

RecordEntry(m, entry) ==
    /\ Len(mgr[m].log_entries) + Len(mgr[m].pending_entries) < MaxHeld
    /\ mgr' = [mgr EXCEPT ![m] = record_entry(@, entry)]
    /\ last' = Call("record_entry", m, <<entry>>, FALSE, FALSE)
    /\ UNCHANGED <<remote, local>>

Flush(m, net) ==
    \E r \in {flush(mgr[m], remote, net)} :
        /\ Len(mgr[m].log_entries) + Len(mgr[m].pending_entries) <= MaxHeld
        /\ mgr' = [mgr EXCEPT ![m] = r.self]
        /\ remote' = r.log
        /\ last' = Call("flush", m, <<>>,
                        Propagates(RequestError(net), RequestErrors),
                        r.wrote)
        /\ UNCHANGED local

\* the entries recorded: videos with and without signature, a subtitle
RemoteEntries ==
    {RemoteEntry("video", "s1"), RemoteEntry("video", "s2"),
     RemoteEntry("video", ""), RemoteEntry("subtitle", "s1")}

\* the calls of the managers ms, which record the entries recorded
RemoteCalls(ms, recorded) ==
    \/ \E m \in ms, net \in {"ok", "lost_request", "http_error"} :
            LoadRemoteLogs(m, net)
    \/ \E m \in ms, entry \in recorded : RecordEntry(m, entry)
    \/ \E m \in ms, net \in NetOutcomes : Flush(m, net)

\* the remote log at first: none, an empty one, or one video entry
InitRemote ==
    /\ history_file = NoHistoryFile
    /\ index_file = NoIndexFile
    /\ legacy_log = [exists |-> FALSE, lines |-> <<>>]
    /\ json_logs = [exists |-> FALSE, files |-> <<>>]
    /\ Constructed
    /\ NoRun
    /\ NoProbe
    /\ NoRemoteFiles
    /\ NoMerge
    /\ remote \in {NoRemoteLog,
                   [exists |-> TRUE, entries |-> <<>>, sha |-> 0],
                   [exists |-> TRUE,
                    entries |-> <<RemoteEntry("video", "s1")>>, sha |-> 0]}
    /\ mgr = [m \in Managers |-> NewManager]

\* SpecRemoteOne: one RemoteSyncManager and its remote log
NextRemoteOne == RemoteCalls({1}, RemoteEntries)

SpecRemoteOne == InitRemote /\ [][NextRemoteOne]_vars

\* SpecRemote: two RemoteSyncManagers on one remote log, video entries
NextRemote ==
    RemoteCalls(Managers,
                {RemoteEntry("video", "s1"), RemoteEntry("video", "s2")})

SpecRemote == InitRemote /\ [][NextRemote]_vars

---------------------------------------------------------------------------
(* RemoteSyncManager: the requests beside the log at log_path              *)

\* everything that is not on GitHub and not a RemoteSyncManager
offline ==
    <<history_file, index_file, by_signature, by_name, loaded, uuid_next,
      clock, legacy_log, json_logs, merge_files, merge_out, added, snap,
      processed_signatures, RUN_LOG_ENTRIES, media>>

\* what the network does to a request that has no sha to be checked:
\* as NetOutcomes, and "http_error" for a status of 400 and more
PutOutcomes == {"ok", "http_error", "lost_request", "lost_response"}

\* put_content without sha: GitHub creates the file, and answers 422 when
\* the path is taken; the files it leaves and the exception it ends with
RemotePut(files, path, content, net) ==
    IF net \in {"lost_request", "http_error"}
    THEN [files |-> files, exc |-> RequestError(net)]
    ELSE IF path \in DOMAIN files
    THEN [files |-> files, exc |-> "RuntimeError"]
    ELSE [files |-> Put(files, path, content), exc |-> RequestError(net)]

\* the dict convert_remote_legacy_log builds from the fields of one line
RemoteConvertLine(parts, sec) ==
    ObjectLine(<<<<"old_name", parts[1]>>,
                 <<"new_name", parts[2]>>,
                 <<"timestamp", IF Len(parts) > 2 /\ parts[3] # ""
                                THEN parts[3] ELSE "t" \o sec>>,
                 <<"signature", IF Len(parts) > 3 THEN parts[4] ELSE "">>,
                 <<"category", "video">>>>)

\* its loop over the lines
RemoteConvertEntries(lines, sec) ==
    LET kept == SelectSeq(lines, LAMBDA parts : Len(parts) >= 2)
    IN  [k \in 1..Len(kept) |-> RemoteConvertLine(kept[k], sec)]

\* delete_content with the sha get_content gave: the legacy file it leaves
\* and the exception it ends with
RemoteDelete(legacy, net) ==
    IF net \in {"lost_request", "http_error"}
    THEN [legacy |-> legacy, exc |-> RequestError(net)]
    ELSE [legacy |-> NoRemoteLegacy, exc |-> RequestError(net)]

\* a conversion that deletes the legacy file before it uploads the JSON
convert_remote_legacy_log_deleteFirst(legacy, files, sec, get, put, del) ==
    LET Result(l, f, val, raised) ==
            [legacy |-> l, files |-> f, val |-> val, raised |-> raised]
        converted == RemoteConvertEntries(legacy.lines, sec)
    IN  IF RequestError(get) # ""
        THEN Result(legacy, files, <<>>,
                    Propagates(RequestError(get), RequestErrors))
        ELSE IF ~legacy.exists \/ legacy.lines = <<>> \/ converted = <<>>
        THEN Result(legacy, files, <<>>, FALSE)
        ELSE With(RemoteDelete(legacy, del),
                  LAMBDA d :
                    IF d.exc # ""
                    THEN Result(d.legacy, files, <<>>, Propagates(d.exc, {}))
                    ELSE With(RemotePut(files, "logs/legacy_" \o sec \o ".json",
                                        converted, put),
                              LAMBDA p :
                                IF p.exc # ""
                                THEN Result(d.legacy, p.files, <<>>,
                                            Propagates(p.exc, {}))
                                ELSE Result(d.legacy, p.files,
                                            <<converted>>, FALSE)))

\* convert_remote_legacy_log: get is the outcome of its GET, put of its
\* PUT, del of its DELETE; the PUT and the DELETE are outside the try
convert_remote_legacy_log(legacy, files, sec, get, put, del) ==
    LET Result(l, f, val, raised) ==
            [legacy |-> l, files |-> f, val |-> val, raised |-> raised]
        converted == RemoteConvertEntries(legacy.lines, sec)
    IN  IF RequestError(get) # ""
        THEN Result(legacy, files, <<>>,
                    Propagates(RequestError(get), RequestErrors))
        ELSE IF ~legacy.exists \/ legacy.lines = <<>> \/ converted = <<>>
        THEN Result(legacy, files, <<>>, FALSE)
        ELSE With(RemotePut(files, "logs/legacy_" \o sec \o ".json",
                            converted, put),
                  LAMBDA p :
                    IF p.exc # ""
                    THEN Result(legacy, p.files, <<>>, Propagates(p.exc, {}))
                    ELSE With(RemoteDelete(legacy, del),
                              LAMBDA d :
                                IF d.exc # ""
                                THEN Result(d.legacy, p.files, <<>>,
                                            Propagates(d.exc, {}))
                                ELSE Result(d.legacy, p.files,
                                            <<converted>>, FALSE)))

\* a snapshot without the test of line 366: an empty list is uploaded too
upload_log_snapshot_always(files, entries, filename_prefix, sec, net) ==
    LET remote_path == "logs/" \o filename_prefix \o "_" \o sec \o ".json"
    IN  With(RemotePut(files, remote_path, entries, net),
             LAMBDA p :
                [files |-> p.files,
                 val |-> IF p.exc = "" THEN <<remote_path>> ELSE <<>>,
                 raised |-> Propagates(p.exc, RequestErrors)])

\* upload_log_snapshot: the path it returns, None as <<>>
upload_log_snapshot(files, entries, filename_prefix, sec, net) ==
    LET remote_path == "logs/" \o filename_prefix \o "_" \o sec \o ".json"
    IN  IF entries = <<>>
        THEN [files |-> files, val |-> <<>>, raised |-> FALSE]
        ELSE With(RemotePut(files, remote_path, entries, net),
                  LAMBDA p :
                    [files |-> p.files,
                     val |-> IF p.exc = "" THEN <<remote_path>> ELSE <<>>,
                     raised |-> Propagates(p.exc, RequestErrors)])

\* except (IOError, OSError, RuntimeError, requests.RequestException)
UploadErrors == {"OSError", "RuntimeError", "RequestException"}

\* _upload_file of a local file [name, readable]: the path is returned
\* whether or not the file was put
upload_file(files, local_file, prefix, sec, net) ==
    LET remote_path == prefix \o "/" \o sec \o "_" \o local_file.name
    IN  IF ~local_file.readable
        THEN [files |-> files, val |-> remote_path,
              raised |-> Propagates("OSError", UploadErrors)]
        ELSE With(RemotePut(files, remote_path, local_file.name, net),
                  LAMBDA p :
                    [files |-> p.files, val |-> remote_path,
                     raised |-> Propagates(p.exc, UploadErrors)])

\* record_entry with a local file that exists: a subtitle is uploaded and
\* its entry gets the remote path
record_entry_file(self, files, entry, local_file, sec, net) ==
    IF CategoryOf(entry) = "subtitle"
    THEN With(upload_file(files, local_file, "subtitles", sec, net),
              LAMBDA u :
                [self |-> [self EXCEPT !.pending_entries =
                                Append(@, Put(entry, "remote_path", u.val))],
                 files |-> u.files, raised |-> u.raised])
    ELSE [self |-> record_entry(self, entry), files |-> files,
          raised |-> FALSE]

\* RemoteSyncManager.has_signature
remote_has_signature(self, signature) ==
    IF signature = "" THEN FALSE ELSE signature \in DOMAIN self.signatures

ConvertRemoteLegacyLog(m, sec, get, put, del) ==
    \E r \in {convert_remote_legacy_log(remote_legacy, remote_files, sec,
                                        get, put, del)} :
        /\ remote_legacy' = r.legacy
        /\ remote_files' = r.files
        /\ last' = Call("convert_remote_legacy_log", m, r.val, r.raised, FALSE)
        /\ UNCHANGED <<remote, mgr, offline>>

UploadLogSnapshot(m, entries, sec, net) ==
    \E r \in {upload_log_snapshot(remote_files, entries, "run", sec, net)} :
        /\ remote_files' = r.files
        /\ last' = Call("upload_log_snapshot", m, r.val, r.raised, FALSE)
        /\ UNCHANGED <<remote, remote_legacy, mgr, offline>>

RecordEntryFile(m, entry, local_file, sec, net) ==
    /\ Len(mgr[m].log_entries) + Len(mgr[m].pending_entries) < MaxHeld
    /\ \E r \in {record_entry_file(mgr[m], remote_files, entry, local_file,
                                   sec, net)} :
        /\ mgr' = [mgr EXCEPT ![m] = r.self]
        /\ remote_files' = r.files
        /\ last' = Call("record_entry", m, <<entry>>, r.raised, FALSE)
    /\ UNCHANGED <<remote, remote_legacy, offline>>

\* the legacy log on GitHub at first: none, an empty one, one of a line
\* that converts, one of a line that does not
RemoteLegacyLogs ==
    {NoRemoteLegacy} \cup
    {[exists |-> TRUE, lines |-> l, sha |-> 0] :
        l \in {<<>>, <<<<"a", "b", "t8", "s1">>>>, <<<<"a">>>>}}

\* the local files record_entry is given
LocalFiles == {[name |-> "a.srt", readable |-> r] : r \in BOOLEAN}

\* the entries of SpecSync: a video, a subtitle, one of another category
SyncEntries ==
    {RemoteEntry("video", "s1"), RemoteEntry("subtitle", "s1"),
     RemoteEntry("other", "s1")}

InitSync ==
    /\ history_file = NoHistoryFile
    /\ index_file = NoIndexFile
    /\ legacy_log = [exists |-> FALSE, lines |-> <<>>]
    /\ json_logs = [exists |-> FALSE, files |-> <<>>]
    /\ Constructed
    /\ NoRun
    /\ NoProbe
    /\ NoMerge
    /\ remote \in {NoRemoteLog,
                   [exists |-> TRUE,
                    entries |-> <<RemoteEntry("video", "s1")>>, sha |-> 0]}
    /\ mgr = [m \in Managers |-> NewManager]
    /\ remote_legacy \in RemoteLegacyLogs
    /\ remote_files = EmptyDict

\* SpecSync: one RemoteSyncManager, every operation it has, every outcome
\* of every request; the calls fall into one second, so that a path can
\* be taken when it is put
NextSync ==
    \/ RemoteCalls({1}, {RemoteEntry("video", "s1")})
    \/ \E get \in {"ok", "http_error", "lost_request"},
          put \in PutOutcomes, del \in PutOutcomes :
            ConvertRemoteLegacyLog(1, "1", get, put, del)
    \/ \E entries \in {<<>>, <<RemoteEntry("video", "s1")>>},
          net \in PutOutcomes :
            UploadLogSnapshot(1, entries, "1", net)
    \/ \E entry \in SyncEntries, local_file \in LocalFiles,
          net \in PutOutcomes :
            RecordEntryFile(1, entry, local_file, "1", net)

SpecSync == InitSync /\ [][NextSync]_vars

---------------------------------------------------------------------------
(* log_processed_file, read_processed_files and write_run_log_snapshot     *)
(* (src/src/mkvprocessor/log_manager.py), with REMOTE_SYNC set to          *)
(* manager 1.  A line of the log is the sequence of its fields.            *)

\* remote_entry of log_processed_file; output_path, language and notes
\* are left out
LoggedEntry(old_name, new_name, signature, category) ==
    [k \in {"old_name", "new_name", "timestamp", "signature", "category"} |->
        CASE k = "old_name" -> old_name
          [] k = "new_name" -> new_name
          [] k = "timestamp" -> "t8"
          [] k = "signature" -> signature
          [] OTHER -> category]

\* metadata.get("category", "video") of the calls of the program
LoggedCategories == {"video", "subtitle"}

\* how the call REMOTE_SYNC.record_entry of line 92 ends: it returns, or it
\* raises, which it can do on its way through _upload_file and
\* put_content, before the entry is queued
SyncOutcomes == {"returns", "raises"}

\* lines 89-94: the call of record_entry inside try ... except Exception
TryRecordEntry(self, remote_entry, sync) ==
    IF sync = "raises" THEN self ELSE record_entry(self, remote_entry)

\* a log_processed_file that buffers and records before it appends
log_processed_file_recordFirst(log, self, buffer, old_name, new_name, signature, probed, category, ok, sync) ==
    LET fallback_signature == IF signature # "" THEN signature ELSE probed
        remote_entry ==
            LoggedEntry(old_name, new_name, fallback_signature, category)
    IN  [log |-> IF ~ok THEN log
                 ELSE [exists |-> TRUE,
                       lines |-> Append(log.lines,
                                        <<old_name, new_name, "t8",
                                          fallback_signature>>)],
         self |-> TryRecordEntry(self, remote_entry, sync),
         buffer |-> Append(buffer, remote_entry)]

\* log_processed_file: signature is the argument, None as "", and probed
\* what get_file_signature gives for ./old_name, None or no file as "".
\* The line is appended, the entry is put into the buffer and recorded;
\* when the append fails the call returns at once
log_processed_file(log, self, buffer, old_name, new_name, signature, probed, category, ok, sync) ==
    LET fallback_signature == IF signature # "" THEN signature ELSE probed
        remote_entry ==
            LoggedEntry(old_name, new_name, fallback_signature, category)
    IN  IF ~ok THEN [log |-> log, self |-> self, buffer |-> buffer]
        ELSE [log |-> [exists |-> TRUE,
                       lines |-> Append(log.lines,
                                        <<old_name, new_name, "t8",
                                          fallback_signature>>)],
              self |-> TryRecordEntry(self, remote_entry, sync),
              buffer |-> Append(buffer, remote_entry)]

\* str.strip() of a field at the start of a line: the names of the model
\* that begin with white space, and what is left of them
LStrip(field) == IF field = " a" THEN "a" ELSE field

\* a line that is read without strip()
Strip_none(parts) == parts

\* line.strip().split('|'): strip() takes the white space before the
\* first field; no field of the model ends with white space
Strip(parts) ==
    [k \in DOMAIN parts |-> IF k = 1 THEN LStrip(parts[k]) ELSE parts[k]]

\* the loop body of read_processed_files: maps is the two dicts
ReadLine(maps, line) ==
    With(Strip(line),
         LAMBDA parts :
            IF Len(parts) < 2 THEN maps
            ELSE LET signature == IF Len(parts) > 3 THEN parts[4] ELSE ""
                     info == [new_name |-> parts[2],
                              time |-> IF Len(parts) > 2 THEN parts[3] ELSE "",
                              signature |-> signature]
                 IN  [processed_files |->
                          Put(Put(maps.processed_files, parts[1], info),
                              parts[2], info),
                      processed_signatures |->
                          IF signature # ""
                          THEN Put(maps.processed_signatures, signature, info)
                          ELSE maps.processed_signatures])

RECURSIVE ReadLines(_, _)
ReadLines(maps, lines) ==
    IF lines = <<>> THEN maps
    ELSE With(ReadLine(maps, Head(lines)),
              LAMBDA m : ReadLines(m, Tail(lines)))

\* read_processed_files: a file that is missing or cannot be read gives
\* two empty dicts
read_processed_files(log, ok) ==
    IF ~log.exists \/ ~ok
    THEN [processed_files |-> EmptyDict, processed_signatures |-> EmptyDict]
    ELSE ReadLines([processed_files |-> EmptyDict,
                    processed_signatures |-> EmptyDict], log.lines)

\* what the file system does to write_run_log_snapshot
SnapshotOutcomes == {"ok", "mkdir_error", "open_error", "write_error"}

\* a snapshot that leaves the buffer as it is
Drain_keep(buffer) == buffer

\* RUN_LOG_ENTRIES = []
Drain(buffer) == <<>>

\* write_run_log_snapshot: the buffer, the directory and the files on
\* GitHub it leaves, the path it returns (None as <<>>), whether it raised
write_run_log_snapshot(buffer, dir, files, prefix, sec, out, net) ==
    LET name == prefix \o "_" \o sec \o ".json"
        Result(b, d, f, val, raised) ==
            [buffer |-> b, dir |-> d, files |-> f, val |-> val,
             raised |-> raised]
    IN  IF buffer = <<>> THEN Result(buffer, dir, files, <<>>, FALSE)
        ELSE IF out = "mkdir_error" THEN Result(buffer, dir, files, <<>>, TRUE)
        ELSE IF out = "open_error"
        THEN Result(buffer, Mkdir(dir), files, <<>>, TRUE)
        ELSE IF out = "write_error"
        THEN Result(buffer,
                    WriteFile(Mkdir(dir), [name |-> name, kind |-> "garbage",
                                           items |-> <<>>]),
                    files, <<>>, TRUE)
        ELSE With(upload_log_snapshot(files, buffer, prefix, sec, net),
                  LAMBDA u :
                    Result(Drain(buffer),
                           WriteFile(Mkdir(dir),
                                     [name |-> name, kind |-> "list",
                                      items |-> [k \in DOMAIN buffer |->
                                                    Dumps(buffer[k])]]),
                           u.files, <<name>>, u.raised))

LogFile(old_name, new_name, signature, probed, category, ok, sync) ==
    /\ \E r \in {log_processed_file(legacy_log, mgr[1], RUN_LOG_ENTRIES,
                                    old_name, new_name, signature, probed,
                                    category, ok, sync)} :
        /\ legacy_log' = r.log
        /\ mgr' = [mgr EXCEPT ![1] = r.self]
        /\ RUN_LOG_ENTRIES' = r.buffer
        /\ last' = Call("log_processed_file", 1, <<>>, FALSE, ok)
    /\ UNCHANGED <<history_file, index_file, by_signature, by_name, loaded,
                   uuid_next, clock, json_logs, merge_files, merge_out,
                   remote, processed_signatures, remote_legacy, remote_files,
                   media, added, snap>>

ReadProcessedFiles(ok) ==
    /\ last' = Call("read_processed_files", 1,
                    <<read_processed_files(legacy_log, ok)>>, FALSE, FALSE)
    /\ UNCHANGED <<remote, mgr, remote_legacy, remote_files, offline>>

WriteRunLogSnapshot(sec, out, net) ==
    /\ \E r \in {write_run_log_snapshot(RUN_LOG_ENTRIES, json_logs,
                                        remote_files, "run", sec, out, net)} :
        /\ RUN_LOG_ENTRIES' = r.buffer
        /\ json_logs' = r.dir
        /\ remote_files' = r.files
        /\ last' = Call("write_run_log_snapshot", 1, r.val, r.raised, FALSE)
    /\ UNCHANGED <<history_file, index_file, by_signature, by_name, loaded,
                   uuid_next, clock, legacy_log, merge_files, merge_out,
                   remote, mgr, processed_signatures, remote_legacy, media,
                   added, snap>>

\* lines of the log: at most this many
MaxLogged == 3

\* the files logged: old_name, new_name, signature; a name is used twice,
\* a name begins with a blank, a signature is missing
LogInputs ==
    {<<"a", "b", "s1">>, <<"b", "a", "s2">>, <<"a", "a", "">>,
     <<" a", "b", "s1">>}

InitLog ==
    /\ history_file = NoHistoryFile
    /\ index_file = NoIndexFile
    /\ legacy_log = [exists |-> FALSE, lines |-> <<>>]
    /\ json_logs = [exists |-> FALSE, files |-> <<>>]
    /\ Constructed
    /\ NoRun
    /\ NoProbe
    /\ NoRemoteFiles
    /\ NoMerge
    /\ NoRemote

\* SpecLog: one process that logs files, reads the log and writes
\* snapshots of its buffer; the record_entry of a video returns, that of
\* a subtitle, which makes a request, may raise
NextLog ==
    \/ \E f \in LogInputs, ok \in BOOLEAN :
          /\ Len(legacy_log.lines) < MaxLogged
          /\ LogFile(f[1], f[2], f[3], "", "video", ok, "returns")
    \/ \E f \in {<<"a", "b", "s1">>}, ok \in BOOLEAN :
          /\ Len(legacy_log.lines) < MaxLogged
          /\ LogFile(f[1], f[2], f[3], "", "subtitle", ok, "raises")
    \/ \E ok \in BOOLEAN : ReadProcessedFiles(ok)
    \/ \E sec \in Seconds, out \in SnapshotOutcomes, net \in PutOutcomes :
          WriteRunLogSnapshot(sec, out, net)

SpecLog == InitLog /\ [][NextLog]_vars

---------------------------------------------------------------------------
(* Runs of main (src/src/mkvprocessor/legacy_api.py) with remote sync      *)
(* configured, and log_processed_file (log_manager.py).  A file of the     *)
(* input folder is known by its signature; which files the folder holds at *)
(* a run is up to the user.  The repository holds no legacy remote log, so *)
(* convert_remote_legacy_log returns None.                                 *)

\* read_processed_files: the signatures of the lines of the local log
ProcessedSignatures(log) ==
    {log.lines[k][4] : k \in {j \in DOMAIN log.lines :
                                /\ Len(log.lines[j]) > 3
                                /\ log.lines[j][4] # ""}}

\* the signatures of the files the input folder can hold
FolderSignatures == {"s1"}

\* the name of the file of a signature in the input folder
FileOf(sig) == IF sig = "s1" THEN "a" ELSE "b"

\* the signatures lines 789-801 of main add: those of the file the
\* conversion has just written
ConvertedSignatures(log, r) ==
    IF r.val = <<>> THEN {} ELSE ProcessedSignatures(log)

\* main up to its loop over the files: read_processed_files, a new
\* RemoteSyncManager, load_remote_logs, convert_legacy_log_file
main(log, dir, rem, net, sec, out) ==
    With(load_remote_logs(NewManager, rem, net),
         LAMBDA m :
            With(convert_legacy_log_file(log, dir, sec, out),
                 LAMBDA r :
                    [mgr |-> m, log |-> r.log, dir |-> r.dir,
                     raised |-> r.raised,
                     processed_signatures |->
                        ProcessedSignatures(log) \cup DOMAIN m.signatures
                            \cup ConvertedSignatures(log, r)]))

\* a run is in its loop over the files
InRun ==
    \/ last.op = "log_processed_file"
    \/ last.op = "main" /\ ~last.raised

\* a run starts when the run before it is over: after its flush, after an
\* exception of convert_legacy_log_file, or after a run that found no file
Main(net, sec, out) ==
    /\ last.op \in {"__init__", "flush", "main"}
    /\ \E r \in {main(legacy_log, json_logs, remote, net, sec, out)} :
        /\ mgr' = [mgr EXCEPT ![1] = r.mgr]
        /\ legacy_log' = r.log
        /\ json_logs' = r.dir
        /\ processed_signatures' = r.processed_signatures
        /\ last' = Call("main", 1, <<>>, r.raised, FALSE)
    /\ UNCHANGED <<history_file, index_file, by_signature, by_name, loaded,
                   uuid_next, clock, merge_files, merge_out, remote,
                   RUN_LOG_ENTRIES, remote_legacy, remote_files, media,
                   added, snap>>

\* the loop of main on one file: skipped when its signature is known,
\* processed and logged otherwise; a file is visited once in a run
LogProcessedFile(sig, ok) ==
    /\ InRun
    /\ sig \notin processed_signatures
    /\ sig \notin ProcessedSignatures(legacy_log)
    /\ LogFile(FileOf(sig), "out_" \o FileOf(sig), sig, "", "video", ok,
               "returns")

\* the end of the run: REMOTE_SYNC.flush(), then write_run_log_snapshot,
\* whose exception main catches
MainFlush(net, sec, out, up) ==
    /\ InRun
    /\ \E r \in {flush(mgr[1], remote, net)},
          w \in {write_run_log_snapshot(RUN_LOG_ENTRIES, json_logs,
                                        remote_files, "run", sec, out, up)} :
        /\ mgr' = [mgr EXCEPT ![1] = r.self]
        /\ remote' = r.log
        /\ RUN_LOG_ENTRIES' = w.buffer
        /\ json_logs' = w.dir
        /\ remote_files' = w.files
        /\ last' = Call("flush", 1, <<>>, FALSE, r.wrote)
    /\ UNCHANGED <<history_file, index_file, by_signature, by_name, loaded,
                   uuid_next, clock, legacy_log, merge_files, merge_out,
                   processed_signatures, remote_legacy, media, added, snap>>

\* the ways a run can end; the disk takes the snapshot, so that every
\* run starts with an empty buffer
RunEnds(net) ==
    \E sec \in Seconds, up \in {"ok", "lost_request"} :
        MainFlush(net, sec, "ok", up)

\* a flush of a non-empty queue that the network carries and GitHub accepts
FlushThatSucceeds ==
    /\ mgr[1].pending_entries # <<>>
    /\ PutAccepted(remote, mgr[1].log_sha)
    /\ RunEnds("ok")

InitRetry ==
    /\ history_file = NoHistoryFile
    /\ index_file = NoIndexFile
    /\ legacy_log = [exists |-> FALSE, lines |-> <<>>]
    /\ json_logs = [exists |-> FALSE, files |-> <<>>]
    /\ Constructed
    /\ NoRun
    /\ NoProbe
    /\ NoRemoteFiles
    /\ NoMerge
    /\ remote \in {NoRemoteLog,
                   [exists |-> TRUE, entries |-> <<>>, sha |-> 0]}
    /\ mgr = [m \in Managers |-> NewManager]

NextRetry ==
    \/ \E net \in {"ok", "lost_request"}, sec \in Seconds,
          out \in ConvertOutcomes : Main(net, sec, out)
    \/ \E sig \in FolderSignatures, ok \in BOOLEAN :
          LogProcessedFile(sig, ok)
    \/ \E net \in NetOutcomes : RunEnds(net)

\* the program is run again and again and every run reaches its flush; a
\* run whose load succeeds and a flush that succeeds are not put off for
\* ever.  No file has to be in the input folder again.
FairRetry ==
    /\ WF_vars(\E net \in {"ok", "lost_request"}, sec \in Seconds,
                  out \in ConvertOutcomes : Main(net, sec, out))
    /\ WF_vars(\E net \in NetOutcomes : RunEnds(net))
    /\ SF_vars(\E sec \in Seconds : Main("ok", sec, "ok"))
    /\ SF_vars(FlushThatSucceeds)

\* SpecRetry: one user who runs the program again and again on a folder
\* that holds one file or none, with remote sync configured
SpecRetry == InitRetry /\ [][NextRetry]_vars /\ FairRetry

---------------------------------------------------------------------------
(* get_file_signature (src/src/mkvprocessor/utils/file_utils.py).  A file  *)
(* is what os.path.getsize, ffprobe and a read of its first MiB give: its  *)
(* size, the format and the streams of the probe, its first MiB.           *)

\* streams of one probe
MaxTracks == 3

\* dict.get(key, default)
GetOr(d, key, default) == IF key \in DOMAIN d THEN d[key] ELSE default

\* the streams ffprobe reports: a video stream, a subtitle stream tagged
\* eng, a subtitle stream without a language tag
Streams ==
    {[codec_type |-> "video", tags |-> EmptyDict],
     [codec_type |-> "subtitle", tags |-> Put(EmptyDict, "language", "eng")],
     [codec_type |-> "subtitle", tags |-> EmptyDict]}

\* the language codes of the model in the order of str
CodesInOrder == <<"eng", "und">>

\* sep.join(parts)
RECURSIVE Join(_, _)
Join(parts, sep) ==
    IF parts = <<>> THEN ""
    ELSE IF Len(parts) = 1 THEN parts[1]
    ELSE parts[1] \o sep \o Join(Tail(parts), sep)

\* hashlib.md5(first_mb).hexdigest()[:8]
Md5Hex8(first_mb) == IF first_mb = "x" THEN "9dd4e461" ELSE "41529076"

\* the subtitle streams of a probe, in track order
sub_streams(probe) ==
    SelectSeq(GetOr(probe, "streams", <<>>),
              LAMBDA s : GetOr(s, "codec_type", "") = "subtitle")

\* the language of every subtitle stream, in track order
TrackLanguages(probe) ==
    With(sub_streams(probe),
         LAMBDA subs :
            [k \in DOMAIN subs |->
                GetOr(GetOr(subs[k], "tags", EmptyDict), "language", "und")])

\* the languages as the tracks give them, neither sorted nor deduplicated
sub_langs_trackOrder(probe) == TrackLanguages(probe)

\* sorted(set(...)) of the languages of the subtitle streams
sub_langs(probe) ==
    With(TrackLanguages(probe),
         LAMBDA languages :
            SelectSeq(CodesInOrder,
                      LAMBDA c : \E k \in DOMAIN languages :
                                    languages[k] = c))

sub_langs_str(probe) ==
    With(sub_langs(probe),
         LAMBDA langs : IF langs # <<>> THEN Join(langs, ",") ELSE "none")

\* what ends a call early: nothing, os.path.getsize raising OSError,
\* ffprobe that cannot be started (OSError), ffprobe that exits with a
\* status other than 0 (ffmpeg.Error), ffprobe output that is not JSON
\* (ValueError), the read of the first MiB raising OSError
SignatureFailures ==
    {"", "getsize:OSError", "probe:OSError", "probe:Error",
     "probe:ValueError", "read:OSError"}

\* the failures of reading the size and of probing
SizeOrProbeFailures ==
    {"getsize:OSError", "probe:OSError", "probe:Error", "probe:ValueError"}

\* the exception a failure raises
Raises(fails) ==
    IF fails = "" THEN ""
    ELSE IF fails = "probe:Error" THEN "ffmpeg.Error"
    ELSE IF fails = "probe:ValueError" THEN "ValueError"
    ELSE "OSError"

\* the except clause of get_file_signature
SignatureCaught == {"OSError", "IOError", "KeyError", "ValueError"}

\* get_file_signature: the value it returns, None as <<>>, and whether it
\* raised
get_file_signature(file, include_hash, fails) ==
    LET probe == file.probe
        duration == GetOr(GetOr(probe, "format", EmptyDict), "duration", "0")
        sub_count == Len(sub_streams(probe))
        signature == ToString(file.size) \o "_" \o duration \o "_"
                        \o ToString(sub_count) \o "_" \o sub_langs_str(probe)
    IN  IF fails \in SizeOrProbeFailures
        THEN [val |-> <<>>,
              raised |-> Propagates(Raises(fails), SignatureCaught)]
        ELSE IF include_hash /\ fails # "read:OSError"
        THEN [val |-> <<signature \o "_" \o Md5Hex8(file.first_mb)>>,
              raised |-> FALSE]
        ELSE [val |-> <<signature>>, raised |-> FALSE]

GetFileSignature(k, include_hash, fails) ==
    /\ \E r \in {get_file_signature(media[k], include_hash, fails)} :
          last' = Call("get_file_signature",
                       [file |-> k, include_hash |-> include_hash,
                        fails |-> fails],
                       r.val, r.raised, FALSE)
    /\ UNCHANGED <<history_file, index_file, by_signature, by_name, loaded,
                   uuid_next, clock, sources, added, snap>>

\* the probes of the model: with and without a duration, up to MaxTracks
\* streams
Probes ==
    {[format |-> fmt, streams |-> streams] :
        fmt \in {EmptyDict, Put(EmptyDict, "duration", "7.5")},
        streams \in SeqsUpTo(Streams, MaxTracks)}

\* a folder of two files: a.mkv of 1 byte, b.mkv of 1 or 2 bytes
Folders ==
    {<<[name |-> "a.mkv", size |-> 1, probe |-> p1, first_mb |-> "x"],
       [name |-> "b.mkv", size |-> size, probe |-> p2, first_mb |-> mb]>> :
        p1 \in {p \in Probes : "duration" \in DOMAIN p.format},
        p2 \in Probes, size \in {1, 2}, mb \in {"x", "y"}}

InitSignature ==
    /\ history_file = NoHistoryFile
    /\ index_file = NoIndexFile
    /\ legacy_log = [exists |-> FALSE, lines |-> <<>>]
    /\ json_logs = [exists |-> FALSE, files |-> <<>>]
    /\ Constructed
    /\ NoRun
    /\ media \in Folders
    /\ NoRemoteFiles
    /\ NoMerge
    /\ NoRemote

\* SpecSignature: signatures are asked for the files of a folder, in any
\* order, any number of times
NextSignature ==
    \E k \in {1, 2}, include_hash \in BOOLEAN, fails \in SignatureFailures :
        GetFileSignature(k, include_hash, fails)

SpecSignature == InitSignature /\ [][NextSignature]_vars

---------------------------------------------------------------------------
(* Properties                                                              *)

\* the entries add_entry returned to instance i, in call order
AddedBy(i) ==
    LET q == SelectSeq(added, LAMBDA r : r.inst = i)
    IN  [k \in 1..Len(q) |-> q[k].entry]

\* the entries put into by_signature[i], in order: by load() from the lines
\* of the log file, then by add_entry
Inserted(i) == snap[i] \o AddedBy(i)

SigOf(e) == Get(e, "signature")

NamesOf(e) == {Get(e, "old_name"), Get(e, "new_name")}

C2_OneEntryPerSignature ==
    \A i \in Inst : loaded[i] =>
        \A k \in DOMAIN Inserted(i) :
            /\ has_signature(by_signature[i], SigOf(Inserted(i)[k]))
            /\ Cardinality({e \in get_all_entries(by_signature[i]) :
                               SigOf(e) = SigOf(Inserted(i)[k])}) = 1

\* C2: once has_signature(s) is true it is true in every later state, and
\* get_all_entries holds exactly one entry for each signature inserted.
C2_SignatureIndexNeverLosesData ==
    [][/\ \A i \in Inst : loaded[i] =>
            /\ loaded'[i]
            /\ \A s \in DOMAIN by_signature[i] :
                  has_signature(by_signature'[i], s)
       /\ C2_OneEntryPerSignature']_vars

\* a lookup on an instance that holds two signatures, one of them of an
\* entry whose append failed
C2_Witness ==
    /\ last.op = "lookup"
    /\ loaded[last.inst]
    /\ Cardinality(DOMAIN by_signature[last.inst]) >= 2
    /\ \E k \in DOMAIN added : ~added[k].wrote /\ added[k].inst = last.inst

\* every add_entry so far appended its line, and the signatures are non-empty
\* and pairwise distinct
C3_AllAppended ==
    /\ \A k \in DOMAIN added : added[k].wrote /\ SigOf(added[k].entry) # ""
    /\ \A j, k \in DOMAIN added :
          j # k => SigOf(added[j].entry) # SigOf(added[k].entry)

\* C3: after N add_entry calls with pairwise distinct non-empty signatures
\* that all appended, the load() of a fresh instance gives N signatures and,
\* for each, an entry equal to the one add_entry returned.
C3_RoundTrip ==
    [][\A i \in Inst :
          (~loaded[i] /\ loaded'[i] /\ last'.op = "load" /\ C3_AllAppended)
          => /\ Cardinality(get_all_signatures(by_signature'[i])) = Len(added)
             /\ \A k \in DOMAIN added :
                   get_by_signature(by_signature'[i], SigOf(added[k].entry))
                       = <<added[k].entry>>]_vars

\* a fresh instance has loaded two appended entries, one with metadata
C3_Witness ==
    /\ last.op = "load"
    /\ loaded[last.inst]
    /\ C3_AllAppended
    /\ Len(added) >= 2
    /\ Len(snap[last.inst]) = Len(added)
    /\ \E k \in DOMAIN added : "imported_from" \in DOMAIN added[k].entry

\* C4: right after add_entry(old, new, sig) with non-empty arguments,
\* has_signature(sig), has_name(old) and has_name(new) are true and
\* get_by_name(old) and get_by_name(new) return the entry with signature sig.
C4_ReadYourWrites ==
    (last.op = "add_entry" /\ ~last.raised) =>
        LET e == last.val[1]
            bs == by_signature[last.inst]
            bn == by_name[last.inst]
        IN  (SigOf(e) # "" /\ "" \notin NamesOf(e)) =>
                /\ has_signature(bs, SigOf(e))
                /\ \A n \in NamesOf(e) :
                      /\ has_name(bn, n)
                      /\ get_by_name(bs, bn, n) # <<>>
                      /\ SigOf(get_by_name(bs, bn, n)[1]) = SigOf(e)
                      /\ get_by_name(bs, bn, n) = <<e>>

\* add_entry of two different names with a signature
C4_Witness ==
    /\ last.op = "add_entry"
    /\ ~last.raised
    /\ SigOf(last.val[1]) # ""
    /\ Get(last.val[1], "old_name") # Get(last.val[1], "new_name")

\* the places in Inserted(i) of the entries that use name n
UsesOf(i, n) == {k \in DOMAIN Inserted(i) : n \in NamesOf(Inserted(i)[k])}

MaxOf(S) == CHOOSE k \in S : \A j \in S : j <= k

\* each name maps to the signature of the entry inserted last with that name
C5_NameMapsToLatest ==
    \A i \in Inst : loaded[i] =>
        \A n \in DOMAIN by_name[i] :
            UsesOf(i, n) # {} =>
                by_name[i][n] = SigOf(Inserted(i)[MaxOf(UsesOf(i, n))])

WrittenLines ==
    LET q == SelectSeq(added, LAMBDA r : r.wrote)
    IN  [k \in 1..Len(q) |-> Dumps(q[k].entry)]

\* C6: an add_entry whose write succeeds appends exactly one line, whether
\* or not the signature is known; the lines already written stay as they
\* are, in the order of the add_entry calls, and no other operation changes
\* the log file.
C6_AppendOnly ==
    [][LET old == history_file.lines
           new == history_file'.lines
       IN  /\ Len(old) <= Len(new)
           /\ SubSeq(new, 1, Len(old)) = old
           /\ history_file.exists => history_file'.exists
           /\ last'.op = "add_entry" =>
                 new = IF last'.wrote THEN Append(old, Dumps(last'.val[1]))
                       ELSE old
           /\ last'.op \in {"load", "lookup", "save_index"} => new = old
           /\ new = WrittenLines']_vars

\* add_entry appended the line of a signature that was already known
C6_Witness ==
    /\ last.op = "add_entry"
    /\ last.wrote
    /\ Len(history_file.lines) >= 2
    /\ \E k \in 1..(Len(history_file.lines) - 1) :
          SigOf(LoadsPairs(history_file.lines[k].pairs)) = SigOf(last.val[1])
    /\ history_file.lines[Len(history_file.lines)] = Dumps(last.val[1])

\* the entries instance i was given by add_entry in the step
NewlyAdded(i) ==
    {added'[k].entry : k \in {j \in (Len(added) + 1)..Len(added') :
                                 added'[j].inst = i}}

\* C7: once loaded, an instance stays loaded, and a later load() - called
\* directly or by a lookup, add_entry or import - reads nothing from disk:
\* by_signature and by_name change only by the entries add_entry indexes.
C7_LoadedIsTerminal ==
    [][\A i \in Inst : loaded[i] =>
          /\ loaded'[i]
          /\ DOMAIN by_signature[i] \subseteq DOMAIN by_signature'[i]
          /\ DOMAIN by_name[i] \subseteq DOMAIN by_name'[i]
          /\ \A s \in DOMAIN by_signature'[i] :
                \/ /\ s \in DOMAIN by_signature[i]
                   /\ by_signature'[i][s] = by_signature[i][s]
                \/ \E e \in NewlyAdded(i) :
                      SigOf(e) = s /\ by_signature'[i][s] = e
          /\ \A n \in DOMAIN by_name'[i] :
                \/ n \in DOMAIN by_name[i] /\ by_name'[i][n] = by_name[i][n]
                \/ \E e \in NewlyAdded(i) :
                      n \in NamesOf(e) /\ by_name'[i][n] = SigOf(e)
          /\ last'.op \in {"load", "lookup", "save_index"} =>
                /\ by_signature'[i] = by_signature[i]
                /\ by_name'[i] = by_name[i]]_vars

\* a load() on a loaded instance while the log file holds a signature the
\* instance does not know
C7_Witness ==
    /\ last.op = "load"
    /\ loaded[last.inst]
    /\ \E k \in DOMAIN history_file.lines :
          LET sig == SigOf(LoadsPairs(history_file.lines[k].pairs))
          IN  sig # "" /\ ~has_signature(by_signature[last.inst], sig)

\* the lines of the log file that load() indexes: JSON objects with a
\* non-empty signature
Indexed(lines) ==
    {k \in DOMAIN lines :
        lines[k].kind = "object" /\ SigOf(LoadsPairs(lines[k].pairs)) # ""}

\* the entry of the last indexed line with signature s
JsonlEntry(lines, s) ==
    LoadsPairs(lines[MaxOf({k \in Indexed(lines) :
                               SigOf(LoadsPairs(lines[k].pairs)) = s})].pairs)

\* the indexed lines that use the non-empty name n
JsonlUses(lines, n) ==
    {k \in Indexed(lines) : n # "" /\ n \in NamesOf(LoadsPairs(lines[k].pairs))}

\* C8: after load(), a signature that is in the JSONL file has the JSONL
\* entry and a name that is in the JSONL file has the JSONL mapping, whatever
\* the index file holds; index-file data appears only for the signatures and
\* names that are absent from the JSONL file.
C8_JsonlOverIndex ==
    [][\A i \in Inst :
          (~loaded[i] /\ loaded'[i] /\ last'.op \in {"load", "lookup"}) =>
          LET lines == history_file.lines
              sigs == {SigOf(LoadsPairs(lines[k].pairs)) : k \in Indexed(lines)}
          IN  /\ sigs \subseteq DOMAIN by_signature'[i]
              /\ \A s \in DOMAIN by_signature'[i] :
                    IF s \in sigs
                    THEN by_signature'[i][s] = JsonlEntry(lines, s)
                    ELSE /\ index_file.exists
                         /\ s \in DOMAIN index_file.by_signature
                         /\ by_signature'[i][s]
                               = LoadsPairs(index_file.by_signature[s])
              /\ \A n \in DOMAIN by_name'[i] :
                    IF JsonlUses(lines, n) # {}
                    THEN by_name'[i][n]
                           = SigOf(LoadsPairs(
                                 lines[MaxOf(JsonlUses(lines, n))].pairs))
                    ELSE /\ index_file.exists
                         /\ n \in DOMAIN index_file.by_name
                         /\ by_name'[i][n] = index_file.by_name[n]]_vars

\* an instance loaded from a log file and an index file that hold different
\* entries for one signature, and from an index file that holds a signature
\* the log file lacks
C8_Witness ==
    /\ last.op = "load"
    /\ loaded[last.inst]
    /\ AddedBy(last.inst) = <<>>
    /\ index_file.exists
    /\ by_signature[last.inst]
           = LoadFromDisk(history_file, index_file).by_signature
    /\ \E s \in DOMAIN index_file.by_signature :
          /\ s \in {SigOf(e) : e \in {snap[last.inst][k] :
                                         k \in DOMAIN snap[last.inst]}}
          /\ by_signature[last.inst][s]
                 # LoadsPairs(index_file.by_signature[s])

\* C9: for any content of the log file - valid entry lines, blank lines,
\* text that is not JSON, JSON that is not an entry object - load() raises
\* nothing, ends Loaded and exposes exactly the valid entries that have a
\* non-empty signature (and what the index file adds to them).
C9_MalformedLineTolerance ==
    [][\A i \in Inst :
          (~loaded[i] /\ last'.op = "load" /\ last'.inst = i) =>
          LET lines == history_file.lines
              sigs == {SigOf(LoadsPairs(lines[k].pairs)) : k \in Indexed(lines)}
          IN  /\ ~last'.raised
              /\ loaded'[i]
              /\ \A s \in sigs :
                    get_by_signature(by_signature'[i], s)
                        = <<JsonlEntry(lines, s)>>
              /\ \A s \in DOMAIN by_signature'[i] :
                    s \in sigs \/ s \in DOMAIN index_file.by_signature]_vars

\* C10: a second import_legacy_log of an unchanged legacy log, or a second
\* import_json_logs of an unchanged directory, by the same object imports
\* nothing: it appends no line, leaves both indexes as they are, and returns
\* 0 when the first call returned (it raises again when the first one did).
C10_ImportsIdempotent ==
    [][(/\ last.op \in {"import_legacy_log", "import_json_logs"}
        /\ last'.op = last.op
        /\ last'.inst = last.inst)
       => /\ last'.raised = last.raised
          /\ ~last.raised => last'.val = <<0>>
          /\ history_file' = history_file
          /\ by_signature' = by_signature
          /\ by_name' = by_name
          /\ added' = added]_vars

\* the fields of the sources' records that tell one entry from another
LegacyKeys ==
    {IF Len(legacy_log.lines[k]) > 3 THEN legacy_log.lines[k][4]
     ELSE legacy_log.lines[k][1] :
        k \in {j \in DOMAIN legacy_log.lines : Len(legacy_log.lines[j]) >= 2}}

\* a legacy log of two records with one signature or one old_name was
\* imported by one call, and a later call has returned 0
C10_Witness ==
    /\ last.op = "import_legacy_log"
    /\ last.val = <<0>>
    /\ Len(legacy_log.lines) = 2
    /\ \A k \in DOMAIN legacy_log.lines : Len(legacy_log.lines[k]) >= 2
    /\ Cardinality(LegacyKeys) = 1
    /\ Len(added) = 1
    /\ Get(added[1].entry, "imported_from") = "legacy_log"

\* C11: import_legacy_log stores a line that has no signature and whose
\* old_name is not known when the line is read under the signature
\* "legacy_" + old_name, so that this signature and the old_name are known
\* afterwards, and the count it returns is the number of entries it added.
C11_LegacySyntheticSignature ==
    [][(last'.op = "import_legacy_log" /\ ~last'.raised /\ legacy_log.exists) =>
       LET i == last'.inst
           pre == load(Self(i), history_file, index_file)
           lines == legacy_log.lines
           Mentions(j, n) ==
               Len(lines[j]) >= 2 /\ n \in {lines[j][1], lines[j][2]}
           Unknown(k) ==
               /\ Len(lines[k]) \in {2, 3}
               /\ ~has_name(pre.by_name, lines[k][1])
               /\ \A j \in 1..(k - 1) : ~Mentions(j, lines[k][1])
       IN  /\ \A k \in DOMAIN lines : Unknown(k) =>
                LET sig == "legacy_" \o lines[k][1]
                    got == get_by_signature(by_signature'[i], sig)
                IN  /\ has_signature(by_signature'[i], sig)
                    /\ has_name(by_name'[i], lines[k][1])
                    /\ got # <<>>
                    /\ Get(got[1], "old_name") = lines[k][1]
                    /\ Get(got[1], "new_name") = lines[k][2]
                    /\ Get(got[1], "signature") = sig
                    /\ Get(got[1], "imported_from") = "legacy_log"
           /\ last'.val = <<Len(added') - Len(added)>>
           /\ SubSeq(added', 1, Len(added)) = added]_vars

\* an import that returned 1 has stored the line a|b, which has no
\* signature, under legacy_a
C11_Witness ==
    /\ last.op = "import_legacy_log"
    /\ last.val = <<1>>
    /\ \E k \in DOMAIN legacy_log.lines : legacy_log.lines[k] = <<"a", "b">>
    /\ has_signature(by_signature[last.inst], "legacy_a")
    /\ Get(by_signature[last.inst]["legacy_a"], "imported_from") = "legacy_log"
    /\ Get(added[Len(added)].entry, "signature") = "legacy_a"

\* the lines of a legacy log that have at least two fields
Parseable(log) == SelectSeq(log.lines, LAMBDA parts : Len(parts) >= 2)

\* file f holds every parseable line of the legacy log, in order
HoldsEvery(f, log) ==
    /\ f.kind = "list"
    /\ Len(f.items) = Len(Parseable(log))
    /\ \A k \in DOMAIN f.items :
          LET e == LoadsPairs(f.items[k].pairs)
              parts == Parseable(log)[k]
          IN  /\ Get(e, "old_name") = parts[1]
              /\ Get(e, "new_name") = parts[2]
              /\ Get(e, "signature") = IF Len(parts) > 3 THEN parts[4] ELSE ""

\* C12: convert_legacy_log_file is all-or-nothing however it ends: either
\* a converted file holding every parseable line exists and the legacy file
\* is gone, or no file was created and the legacy file is as it was; with a
\* missing legacy file or no parseable line it changes nothing and, if it
\* returns, returns None.
C12_ConvertAllOrNothing ==
    [][last'.op = "convert_legacy_log_file" =>
       LET Migrated ==
               /\ ~legacy_log'.exists
               /\ \E k \in DOMAIN json_logs'.files :
                     HoldsEvery(json_logs'.files[k], legacy_log)
           Untouched ==
               /\ legacy_log' = legacy_log
               /\ json_logs'.files = json_logs.files
       IN  /\ Migrated \/ Untouched
           /\ (~legacy_log.exists \/ Parseable(legacy_log) = <<>>) =>
                 /\ Untouched
                 /\ ~last'.raised => last'.val = <<>>]_vars

\* C13: the call that follows a convert_legacy_log_file that returned a
\* path returns None and leaves the directory of converted files as it is.
C13_ConvertExactlyOnce ==
    [][(/\ last.op = "convert_legacy_log_file"
        /\ ~last.raised
        /\ last.val # <<>>
        /\ last'.op = "convert_legacy_log_file")
       => /\ last'.val = <<>>
          /\ ~last'.raised
          /\ json_logs' = json_logs
          /\ legacy_log' = legacy_log]_vars

\* a call has returned None where an earlier one left a converted file and
\* removed the legacy file
C13_Witness ==
    /\ last.op = "convert_legacy_log_file"
    /\ last.val = <<>>
    /\ ~last.raised
    /\ ~legacy_log.exists
    /\ \E k \in DOMAIN json_logs.files : json_logs.files[k].kind = "list"

\* C14: after a convert_legacy_log_file that returned a path, an
\* import_json_logs of the directory that returns leaves the old_name of
\* every legacy line of two or more fields known, and its signature known
\* when it has one.
C14_MigrationLosesNoHistory ==
    [][(/\ last'.op = "convert_legacy_log_file"
        /\ ~last'.raised
        /\ last'.val # <<>>)
       => \A ok \in BOOLEAN :
            LET st == import_json_logs(Begin(1), index_file, json_logs', ok)
                lines == Parseable(legacy_log)
            IN  ~st.raised =>
                  \A k \in DOMAIN lines :
                     /\ has_name(st.by_name, lines[k][1])
                     /\ (Len(lines[k]) > 3 /\ lines[k][4] # "") =>
                            has_signature(st.by_signature, lines[k][4])]_vars

\* the lines of the files of the list that exist and can be read, in list
\* order and then line order
RECURSIVE ReadableLines(_)
ReadableLines(files) ==
    IF files = <<>> THEN <<>>
    ELSE (IF Head(files).exists /\ Head(files).readable
          THEN Head(files).lines ELSE <<>>) \o ReadableLines(Tail(files))

\* where signature s occurs first in the lines
FirstAt(lines, s) ==
    CHOOSE k \in Indexed(lines) :
        /\ SigOf(LoadsPairs(lines[k].pairs)) = s
        /\ \A j \in Indexed(lines) :
              SigOf(LoadsPairs(lines[j].pairs)) = s => k <= j

\* the entries of the output file
MergedEntries(out_file) ==
    [k \in DOMAIN out_file.lines |-> LoadsPairs(out_file.lines[k].pairs)]

\* C15: merge_history_files raises nothing and, when the output is written,
\* the output holds exactly one entry for each non-empty signature of the
\* readable input files, the first one in list order and then line order;
\* entries without signature are not written, missing files and malformed
\* lines are skipped.
C15_MergeFirstSeenWins ==
    [][last'.op = "merge_history_files" =>
       LET lines == ReadableLines(merge_files)
           sigs == {SigOf(LoadsPairs(lines[k].pairs)) : k \in Indexed(lines)}
           out == MergedEntries(merge_out')
       IN  /\ ~last'.raised
           /\ last'.wrote =>
                /\ \A k \in DOMAIN merge_out'.lines :
                      merge_out'.lines[k].kind = "object"
                /\ {SigOf(out[k]) : k \in DOMAIN out} = sigs
                /\ \A j, k \in DOMAIN out :
                      SigOf(out[j]) = SigOf(out[k]) => j = k
                /\ \A k \in DOMAIN out :
                      out[k] = LoadsPairs(lines[FirstAt(lines, SigOf(out[k]))].pairs)]_vars

\* C16: the output of a merge_history_files that returned lists its entries
\* in non-decreasing timestamp order, entries of one timestamp in first-seen
\* order, and the count returned is the number of entries written, or 0
\* when the output could not be written.
C16_MergeSortedByTimestamp ==
    [][(last'.op = "merge_history_files" /\ ~last'.raised) =>
       LET lines == ReadableLines(merge_files)
           out == MergedEntries(merge_out')
       IN  /\ last'.wrote =>
                /\ \A j, k \in DOMAIN out : j < k =>
                      /\ Rank(SortKey(out[j])) <= Rank(SortKey(out[k]))
                      /\ SortKey(out[j]) = SortKey(out[k]) =>
                            FirstAt(lines, SigOf(out[j]))
                                < FirstAt(lines, SigOf(out[k]))
                /\ last'.val = <<Len(out)>>
           /\ ~last'.wrote => last'.val = <<0>>]_vars

\* a merge has written two entries in timestamp order that the input gave
\* in the other order
C16_Witness ==
    /\ last.op = "merge_history_files"
    /\ last.wrote
    /\ last.val = <<2>>
    /\ LET lines == ReadableLines(merge_files)
           out == MergedEntries(merge_out)
       IN  /\ Len(out) = 2
           /\ Rank(SortKey(out[1])) < Rank(SortKey(out[2]))
           /\ FirstAt(lines, SigOf(out[2])) < FirstAt(lines, SigOf(out[1]))

\* what manager m holds: the loaded log followed by the queue
Held(m) == mgr[m].log_entries \o mgr[m].pending_entries

\* C17: on one RemoteSyncManager, whatever load_remote_logs, record_entry
\* and flush calls were made, log_entries + pending_entries holds at most
\* one video entry for each non-empty signature.
C17_OneVideoEntryPerSignature ==
    \A m \in Managers, sig \in Sigs :
        Cardinality({k \in DOMAIN Held(m) :
                        /\ CategoryOf(Held(m)[k]) = "video"
                        /\ SignatureOf(Held(m)[k]) = sig}) <= 1

\* C18: flush changes the manager all at once or not at all: when
\* put_content returned, log_entries is the old log_entries followed by the
\* queue, log_sha is the sha of the log now on GitHub and the queue is
\* empty; otherwise the manager is as it was; with an empty queue nothing
\* is sent and nothing changes.
C18_FlushAtomic ==
    [][\A m \in Managers : (last'.op = "flush" /\ last'.inst = m) =>
          LET merged == Held(m)
          IN  /\ mgr[m].pending_entries = <<>> =>
                    /\ mgr' = mgr
                    /\ remote' = remote
                    /\ ~last'.wrote
              /\ last'.wrote =>
                    /\ mgr'[m].log_entries = merged
                    /\ mgr'[m].pending_entries = <<>>
                    /\ mgr'[m].log_sha = <<remote'.sha>>
                    /\ mgr'[m].signatures = mgr[m].signatures
                    /\ remote'.exists
                    /\ remote'.entries = merged
              /\ ~last'.wrote => mgr'[m] = mgr[m]
              /\ \A o \in Managers \ {m} : mgr'[o] = mgr[o]]_vars

\* a flush has put a loaded entry and a queued entry on GitHub
C18_Witness ==
    /\ last.op = "flush"
    /\ last.wrote
    /\ Len(mgr[last.inst].log_entries) >= 2
    /\ mgr[last.inst].pending_entries = <<>>
    /\ remote.entries = mgr[last.inst].log_entries
    /\ mgr[last.inst].log_sha = <<remote.sha>>

\* q is p followed by more
IsPrefix(p, q) == Len(p) <= Len(q) /\ SubSeq(q, 1, Len(p)) = p

\* C19: the remote log changes only by a flush of a manager whose log_sha
\* is the sha the log has (no sha when there is no log), and it only grows:
\* no flush removes an entry that is in the remote log.
C19_OptimisticConcurrency ==
    [][/\ remote' # remote =>
            \E m \in Managers :
                /\ last'.op = "flush"
                /\ last'.inst = m
                /\ mgr[m].pending_entries # <<>>
                /\ IF remote.exists THEN mgr[m].log_sha = <<remote.sha>>
                   ELSE mgr[m].log_sha = <<>>
                /\ remote'.entries = Held(m)
       /\ remote.exists =>
            /\ remote'.exists
            /\ IsPrefix(remote.entries, remote'.entries)]_vars

\* manager 2 has flushed with the sha of a log that manager 1 has replaced
\* since: its queue is still there and the log holds what manager 1 wrote
C19_Witness ==
    /\ last.op = "flush"
    /\ last.inst = 2
    /\ ~last.wrote
    /\ mgr[2].pending_entries # <<>>
    /\ remote.exists
    /\ mgr[2].log_sha # <<remote.sha>>
    /\ mgr[1].log_sha = <<remote.sha>>
    /\ remote.entries = mgr[1].log_entries
    /\ Len(remote.entries) > Len(mgr[2].log_entries)

\* the queue of manager 1 holds an entry with this signature
Queued(sig) ==
    \E k \in DOMAIN mgr[1].pending_entries :
        SignatureOf(mgr[1].pending_entries[k]) = sig

\* the remote log holds an entry with this signature
InRemote(sig) ==
    /\ remote.exists
    /\ \E k \in DOMAIN remote.entries : SignatureOf(remote.entries[k]) = sig

\* C20: an entry that was queued is in the remote log in the end, whatever
\* flushes failed in between, once loads and writes succeed again.
C20_QueuedEventuallyRemote ==
    \A sig \in Sigs : Queued(sig) ~> InRemote(sig)

\* the operations of a RemoteSyncManager
RemoteOps ==
    {"load_remote_logs", "convert_remote_legacy_log", "record_entry",
     "flush", "upload_log_snapshot"}

\* C21: no operation of a RemoteSyncManager ends with an exception when a
\* request fails (status of 400 and more, conflict, timeout, connection
\* error): the call returns.
C21_RemoteFailuresStayInside ==
    last.op \in RemoteOps => ~last.raised

\* the video entries with a signature among entries
VideoEntries(entries) ==
    {entries[k] : k \in {j \in DOMAIN entries :
                            /\ CategoryOf(entries[j]) = "video"
                            /\ SignatureOf(entries[j]) # ""}}

\* C22: a load_remote_logs whose request is answered takes what GitHub
\* has: no log is an empty list and no sha, a log is its entries and its
\* sha; it returns the list, and self.signatures maps exactly the
\* signatures of the fetched video entries that have one, each to such an
\* entry.  A load whose request fails returns [] and changes nothing.
C22_LoadTakesRemoteLog ==
    [][\A m \in Managers :
         (last'.op = "load_remote_logs" /\ last'.inst = m) =>
            LET fetched == IF remote.exists THEN remote.entries ELSE <<>>
            IN  /\ ~last'.raised
                /\ mgr'[m].pending_entries = mgr[m].pending_entries
                /\ \/ /\ mgr'[m] = mgr[m]
                      /\ last'.val = <<<<>>>>
                   \/ /\ mgr'[m].log_entries = fetched
                      /\ mgr'[m].log_sha =
                            IF remote.exists THEN <<remote.sha>> ELSE <<>>
                      /\ last'.val = <<fetched>>
                      /\ DOMAIN mgr'[m].signatures =
                            {SignatureOf(e) : e \in VideoEntries(fetched)}
                      /\ \A sig \in DOMAIN mgr'[m].signatures :
                            /\ mgr'[m].signatures[sig] \in VideoEntries(fetched)
                            /\ SignatureOf(mgr'[m].signatures[sig]) = sig]_vars

\* a load has fetched a log that holds a video with a signature beside a
\* video without one and a subtitle: one signature is known
C22_Witness ==
    /\ last.op = "load_remote_logs"
    /\ last.val = <<remote.entries>>
    /\ mgr[1].log_sha = <<remote.sha>>
    /\ Len(mgr[1].log_entries) = 3
    /\ \E k \in DOMAIN mgr[1].log_entries :
          mgr[1].log_entries[k] = RemoteEntry("video", "")
    /\ \E k \in DOMAIN mgr[1].log_entries :
          CategoryOf(mgr[1].log_entries[k]) = "subtitle"
    /\ DOMAIN mgr[1].signatures = {"s1"}

\* a load has found no log on GitHub after the manager had queued an entry
C22_WitnessNotFound ==
    /\ last.op = "load_remote_logs"
    /\ ~remote.exists
    /\ mgr[1].log_entries = <<>>
    /\ mgr[1].log_sha = <<>>
    /\ mgr[1].signatures = EmptyDict
    /\ mgr[1].pending_entries # <<>>

\* entry with the keys of given only
Restrict(entry, given) == [k \in DOMAIN given |-> entry[k]]

\* C23: has_signature(s) holds only for the signature of a video entry the
\* manager holds, loaded or queued; a record_entry of an entry that is no
\* video appends that one entry to pending_entries and changes nothing
\* else, whatever signatures are known.
C23_OnlyVideosDeduplicated ==
    [][\A m \in Managers :
        /\ \A sig \in SigInputs :
              remote_has_signature(mgr'[m], sig) =>
                 \E k \in DOMAIN (mgr'[m].log_entries \o mgr'[m].pending_entries) :
                    LET e == (mgr'[m].log_entries \o mgr'[m].pending_entries)[k]
                    IN  CategoryOf(e) = "video" /\ SignatureOf(e) = sig
        /\ ( /\ last'.op = "record_entry"
             /\ last'.inst = m
             /\ CategoryOf(last'.val[1]) # "video" ) =>
              /\ Len(mgr'[m].pending_entries) = Len(mgr[m].pending_entries) + 1
              /\ SubSeq(mgr'[m].pending_entries, 1, Len(mgr[m].pending_entries))
                    = mgr[m].pending_entries
              /\ Restrict(mgr'[m].pending_entries[Len(mgr'[m].pending_entries)],
                          last'.val[1]) = last'.val[1]
              /\ mgr'[m].signatures = mgr[m].signatures
              /\ mgr'[m].log_entries = mgr[m].log_entries]_vars

\* a subtitle and an entry of another category, both of signature s1, are
\* queued twice over while no video is: has_signature("s1") is false
C23_Witness ==
    /\ last.op = "record_entry"
    /\ Len(mgr[1].pending_entries) = 3
    /\ \A k \in DOMAIN mgr[1].pending_entries :
          /\ CategoryOf(mgr[1].pending_entries[k]) # "video"
          /\ SignatureOf(mgr[1].pending_entries[k]) = "s1"
    /\ \E k \in DOMAIN mgr[1].pending_entries :
          CategoryOf(mgr[1].pending_entries[k]) = "other"
    /\ \E k \in DOMAIN mgr[1].pending_entries :
          "remote_path" \in DOMAIN mgr[1].pending_entries[k]
    /\ ~remote_has_signature(mgr[1], "s1")

\* the files of directory dir that are named name
FilesNamed(dir, name) ==
    {k \in DOMAIN dir.files : dir.files[k].name = name}

\* the files of directory dir that are not named name, in their order
FilesBut(dir, name) == SelectSeq(dir.files, LAMBDA file : file.name # name)

\* C24: the buffer holds the entries logged since the last snapshot, in
\* the order of logging, and a snapshot drains it: a log_processed_file
\* that has appended its line puts its entry at the end of the buffer; a
\* write_run_log_snapshot that returns with a non-empty buffer has written
\* one file that holds exactly the buffer and leaves the buffer empty,
\* whether or not the upload succeeded; with an empty buffer it returns
\* None and writes nothing.
C24_SnapshotDrainsBuffer ==
    [][/\ last'.op = "log_processed_file" =>
            IF last'.wrote
            THEN LET line == legacy_log'.lines[Len(legacy_log'.lines)]
                 IN  /\ Len(legacy_log'.lines) = Len(legacy_log.lines) + 1
                     /\ \E c \in LoggedCategories :
                            RUN_LOG_ENTRIES' =
                                Append(RUN_LOG_ENTRIES,
                                       LoggedEntry(line[1], line[2], line[4],
                                                   c))
            ELSE RUN_LOG_ENTRIES' = RUN_LOG_ENTRIES
       /\ (last'.op = "write_run_log_snapshot" /\ RUN_LOG_ENTRIES = <<>>) =>
            /\ last'.val = <<>>
            /\ ~last'.raised
            /\ json_logs' = json_logs
            /\ remote_files' = remote_files
            /\ RUN_LOG_ENTRIES' = <<>>
       /\ ( /\ last'.op = "write_run_log_snapshot"
            /\ RUN_LOG_ENTRIES # <<>>
            /\ ~last'.raised ) =>
            /\ last'.val # <<>>
            /\ Cardinality(FilesNamed(json_logs', last'.val[1])) = 1
            /\ \A k \in FilesNamed(json_logs', last'.val[1]) :
                  /\ json_logs'.files[k].kind = "list"
                  /\ json_logs'.files[k].items =
                        [n \in DOMAIN RUN_LOG_ENTRIES |->
                            Dumps(RUN_LOG_ENTRIES[n])]
            /\ FilesBut(json_logs', last'.val[1])
                  = FilesBut(json_logs, last'.val[1])
            /\ RUN_LOG_ENTRIES' = <<>>]_vars

\* a snapshot of two entries has been written and the buffer is empty,
\* while the upload of the snapshot has failed
C24_Witness ==
    /\ last.op = "write_run_log_snapshot"
    /\ last.val # <<>>
    /\ RUN_LOG_ENTRIES = <<>>
    /\ remote_files = EmptyDict
    /\ \E k \in DOMAIN json_logs.files :
          /\ json_logs.files[k].name = last.val[1]
          /\ Len(json_logs.files[k].items) = 2
          /\ LoadsPairs(json_logs.files[k].items[1].pairs)["signature"] = "s2"
          /\ LoadsPairs(json_logs.files[k].items[2].pairs)["signature"] = "s1"

\* C25: get_file_signature returns None, and neither raises nor returns
\* a signature, whenever reading the size or probing the file fails,
\* with and without include_hash.
C25_SignatureFailureGivesNone ==
    ( /\ last.op = "get_file_signature"
      /\ last.inst.fails \in SizeOrProbeFailures ) =>
        /\ ~last.raised
        /\ last.val = <<>>

\* what the claim calls the probed attributes of a file: its size, its
\* duration, the number of its subtitle tracks and the set of their
\* language codes
Attributes(file) ==
    With(TrackLanguages(file.probe),
         LAMBDA languages :
            [size |-> file.size,
             duration |-> GetOr(GetOr(file.probe, "format", EmptyDict),
                                "duration", "0"),
             sub_count |-> Len(languages),
             languages |-> {languages[k] : k \in DOMAIN languages}])

\* the call returned a signature
ReturnedSignature(call) ==
    call.op = "get_file_signature" /\ call.val # <<>>

\* the call was to add the hash of the first MiB and could read it
Hashed(call) == call.inst.include_hash /\ call.inst.fails # "read:OSError"

\* the texts a language part may be
LanguageParts ==
    {"none"} \cup {Join(q, ",") : q \in SeqsUpTo({"eng", "und"}, MaxTracks)}

\* size_duration_count_ of a file with attributes a
SignatureStart(a) ==
    ToString(a.size) \o "_" \o a.duration \o "_" \o ToString(a.sub_count)
        \o "_"

\* the language part of the signature the call returned is "none" exactly
\* when the file has no subtitle track
NoneIffNoSubtitles(call) ==
    \E file \in {media[call.inst.file]} :
    \E a \in {Attributes(file)} :
    \E start \in {SignatureStart(a)} :
    \E part \in LanguageParts :
        /\ \/ call.val[1] = start \o part
           \/ call.val[1] = start \o part \o "_" \o Md5Hex8(file.first_mb)
        /\ (part = "none") <=> (a.sub_count = 0)

\* C26 as stated: two calls that return a signature for files of equal
\* size, duration, subtitle-track count and language set return the same
\* signature, whatever include_hash is, and the language part is "none"
\* exactly when there is no subtitle track.
C26_SignatureOfAttributesOnly ==
    [][/\ ( /\ ReturnedSignature(last)
            /\ ReturnedSignature(last')
            /\ Attributes(media[last.inst.file])
                  = Attributes(media[last'.inst.file]) ) =>
            last'.val = last.val
       /\ ReturnedSignature(last') => NoneIffNoSubtitles(last')]_vars

\* C26, amended: the same for two calls that both add the hash or both
\* leave it out, and, when they add it, for files with the same first MiB.
C26_SignatureOfAttributesAndHash ==
    [][/\ ( /\ ReturnedSignature(last)
            /\ ReturnedSignature(last')
            /\ Attributes(media[last.inst.file])
                  = Attributes(media[last'.inst.file])
            /\ Hashed(last) = Hashed(last')
            /\ Hashed(last) =>
                  media[last.inst.file].first_mb
                     = media[last'.inst.file].first_mb ) =>
            last'.val = last.val
       /\ ReturnedSignature(last') => NoneIffNoSubtitles(last')]_vars

\* b.mkv got the signature of a.mkv: the two have the same size and
\* duration and three subtitle tracks in eng and und, in another order and
\* with another code repeated
C26_Witness ==
    /\ ReturnedSignature(last)
    /\ last.inst.file = 2
    /\ ~last.inst.include_hash
    /\ last.val = <<"1_7.5_3_eng,und">>
    /\ last.val = get_file_signature(media[1], FALSE, "").val
    /\ media[1].name # media[2].name
    /\ TrackLanguages(media[1].probe) = <<"und", "eng", "und">>
    /\ TrackLanguages(media[2].probe) = <<"eng", "eng", "und">>

\* C27: has_signature("") is False on every HistoryManager, whatever was
\* added, imported or loaded.
C27_EmptySignatureNeverKnown ==
    \A i \in Inst : ~has_signature(by_signature[i], "")

\* has_signature("") is False on every RemoteSyncManager, whatever was
\* loaded or recorded
C27_RemoteNeverKnowsEmpty ==
    \A m \in Managers : mgr[m] # <<>> => ~remote_has_signature(mgr[m], "")

\* read_processed_files puts no empty signature into its signature map
C27_ReadSkipsEmpty ==
    last.op = "read_processed_files" =>
        "" \notin DOMAIN last.val[1].processed_signatures

\* the operations of a HistoryManager
HistoryOps ==
    {"load", "lookup", "add_entry", "save_index", "import_legacy_log",
     "import_json_logs"}

\* C28: no operation of a HistoryManager raises, whatever the files hold
\* and whether or not the disk can be read and written and the history
\* directory created.
C28_HistoryManagerNeverRaises ==
    last.op \in HistoryOps => ~last.raised

\* what read_processed_files keeps of a logged line
InfoOf(line) ==
    [new_name |-> line[2], time |-> line[3], signature |-> line[4]]

\* the last line of lines for which Uses holds
LastLine(lines, Uses(_)) ==
    lines[CHOOSE k \in DOMAIN lines :
            /\ Uses(lines[k])
            /\ \A j \in DOMAIN lines : Uses(lines[j]) => j <= k]

\* C29: a read_processed_files that found the log returns a name map with
\* the old and the new name of every logged record and a signature map
\* with every non-empty logged signature, and each key maps to the new
\* name, time and signature of the last record logged with that key.
C29_LegacyLogRoundTrip ==
    ( /\ last.op = "read_processed_files"
      /\ legacy_log.lines # <<>> => last.val[1].processed_files # EmptyDict )
    =>
    LET lines == legacy_log.lines
        processed_files == last.val[1].processed_files
        signatures == last.val[1].processed_signatures
    IN  \A k \in DOMAIN lines :
          /\ \A name \in {lines[k][1], lines[k][2]} :
                /\ name \in DOMAIN processed_files
                /\ processed_files[name] =
                      InfoOf(LastLine(lines,
                                      LAMBDA l : name \in {l[1], l[2]}))
          /\ lines[k][4] # "" =>
                /\ lines[k][4] \in DOMAIN signatures
                /\ signatures[lines[k][4]] =
                      InfoOf(LastLine(lines, LAMBDA l : l[4] = lines[k][4]))

\* the same for names that do not begin with white space
C29_RoundTripOfTrimmedNames ==
    (\A k \in DOMAIN legacy_log.lines :
        LStrip(legacy_log.lines[k][1]) = legacy_log.lines[k][1])
    => C29_LegacyLogRoundTrip

\* the non-empty signatures of the add_entry calls whose append succeeded
AppendedSignatures ==
    {SigOf(added[k].entry) :
        k \in {j \in DOMAIN added :
                  added[j].wrote /\ SigOf(added[j].entry) # ""}}

\* C30: when two objects have written to one directory in any order, the
\* load of an object constructed afterwards raises nothing and takes every
\* non-empty signature that either of them appended, as one entry per
\* signature, and every line of the log file is a JSON object.
C30_TwoWritersLoseNothing ==
    [][( /\ last.op = "__init__"
         /\ last'.op = "load"
         /\ last'.inst = last.inst ) =>
        LET bs == by_signature'[last'.inst]
        IN  /\ ~last'.raised
            /\ loaded'[last'.inst]
            /\ \A s \in AppendedSignatures :
                  /\ has_signature(bs, s)
                  /\ Cardinality({e \in get_all_entries(bs) :
                                     Get(e, "signature") = s}) = 1
            /\ \A k \in DOMAIN history_file.lines :
                  history_file.lines[k].kind = "object"]_vars

\* object 1 appended s1, then object 2 appended s1 and s2 was appended by
\* none; the index file was written; a new object 1 has loaded the entry
\* of object 2 for s1
C30_Witness ==
    /\ last.op = "load"
    /\ last.inst = 1
    /\ Len(added) = 2
    /\ added[1].inst = 1 /\ added[1].wrote
    /\ added[2].inst = 2 /\ added[2].wrote
    /\ SigOf(added[1].entry) = "s1"
    /\ SigOf(added[2].entry) = "s1"
    /\ index_file.exists
    /\ DOMAIN by_signature[1] = {"s1"}
    /\ by_signature[1]["s1"] = added[2].entry

\* the signatures of the entries of the files that earlier runs left in
\* the logs directory: the converted legacy logs and the run snapshots
RecordedSignatures(dir) ==
    {SigOf(LoadsPairs(dir.files[kj[1]].items[kj[2]].pairs)) :
        kj \in {x \in (DOMAIN dir.files) \X (1..MaxLogged) :
                    /\ dir.files[x[1]].kind = "list"
                    /\ x[2] \in DOMAIN dir.files[x[1]].items}}

\* this step is the loop of main processing the file of signature sig and
\* logging it
ProcessedAgain(sig) ==
    /\ Len(legacy_log'.lines) = Len(legacy_log.lines) + 1
    /\ legacy_log'.lines[Len(legacy_log'.lines)][4] = sig

\* C31: a file that one run of main recorded as processed is skipped by
\* every later run on the folder: no run processes and logs a file whose
\* signature is in a log file that an earlier run wrote.
C31_RecordedFileIsSkipped ==
    [][\A sig \in RecordedSignatures(json_logs) : ~ProcessedAgain(sig)]_vars

\* C32: a queued subtitle entry carries a remote_path only if the file was
\* stored at that path: every entry of pending_entries that has a
\* remote_path names a file of the repository.
C32_RemotePathOnlyIfStored ==
    \A k \in DOMAIN mgr[1].pending_entries :
        "remote_path" \in DOMAIN mgr[1].pending_entries[k] =>
            mgr[1].pending_entries[k]["remote_path"] \in DOMAIN remote_files

\* the legacy file on GitHub has nothing to convert: it is absent, empty,
\* or has no line of two fields
NothingToConvert(legacy) ==
    \/ ~legacy.exists
    \/ legacy.lines = <<>>
    \/ RemoteConvertEntries(legacy.lines, "1") = <<>>

\* the converted entries of legacy are a file of the repository
StoredAsJson(legacy, files) ==
    \E path \in DOMAIN files :
        files[path] = RemoteConvertEntries(legacy.lines, "1")

\* C33: convert_remote_legacy_log deletes the remote legacy file only after
\* the converted JSON is in the repository, and no call takes a file of
\* the logs directory away, so the legacy history is there in one of the
\* two forms after every call, a failed upload and a failed delete
\* included; when the legacy file is absent, empty or has no line of two
\* fields, the call uploads nothing, deletes nothing and returns None.
C33_LegacyDeletedAfterUpload ==
    [][/\ remote_legacy' # remote_legacy =>
            /\ last'.op = "convert_remote_legacy_log"
            /\ ~NothingToConvert(remote_legacy)
            /\ StoredAsJson(remote_legacy, remote_files')
       /\ \A path \in DOMAIN remote_files :
            /\ path \in DOMAIN remote_files'
            /\ remote_files'[path] = remote_files[path]
       /\ (last'.op = "convert_remote_legacy_log"
                /\ NothingToConvert(remote_legacy)) =>
            /\ remote_legacy' = remote_legacy
            /\ remote_files' = remote_files
            /\ last'.val = <<>>
            /\ ~last'.raised]_vars

\* a conversion that uploaded the JSON and deleted the legacy file
C33_Witness ==
    /\ last.op = "convert_remote_legacy_log"
    /\ last.val # <<>>
    /\ ~remote_legacy.exists
    /\ "logs/legacy_1.json" \in DOMAIN remote_files

\* the paths of files that are not in before
NewPaths(before, after) == DOMAIN after \ DOMAIN before

\* C34: upload_log_snapshot never touches the current log: the file at
\* log_path and the manager's log_entries, log_sha, pending_entries and
\* signatures are as before, whether the upload succeeds or fails; every
\* file of the repository stays as it is, and the only file the call can
\* add is one at the dated path under logs/, which was free, and the path
\* is what it returns.  An empty list of entries is never written: the
\* call returns None and adds nothing.
C34_SnapshotLeavesCurrentLog ==
    [][last'.op = "upload_log_snapshot" =>
        /\ remote' = remote
        /\ mgr' = mgr
        /\ ~last'.raised
        /\ \A path \in DOMAIN remote_files :
            /\ path \in DOMAIN remote_files'
            /\ remote_files'[path] = remote_files[path]
        /\ NewPaths(remote_files, remote_files') \subseteq {"logs/run_1.json"}
        /\ \A path \in NewPaths(remote_files, remote_files') :
            remote_files'[path] # <<>>
        /\ last'.val # <<>> =>
            /\ last'.val = <<"logs/run_1.json">>
            /\ NewPaths(remote_files, remote_files') = {"logs/run_1.json"}]_vars

\* a snapshot was uploaded by a manager that has a loaded log and a queue
C34_Witness ==
    /\ last.op = "upload_log_snapshot"
    /\ last.val = <<"logs/run_1.json">>
    /\ mgr[1].pending_entries # <<>>
    /\ remote.exists

C36_RecordedOnlyAfterAppend ==
    [][last'.op = "log_processed_file" =>
        /\ \A f \in LogInputs, c \in LoggedCategories, sync \in SyncOutcomes :
            LogFile(f[1], f[2], f[3], "", c, FALSE, sync) =>
                /\ legacy_log' = legacy_log
                /\ RUN_LOG_ENTRIES' = RUN_LOG_ENTRIES
                /\ mgr' = mgr
                /\ ~last'.raised
        /\ \A f \in LogInputs, c \in LoggedCategories :
            LogFile(f[1], f[2], f[3], "", c, TRUE, "raises") =>
                /\ legacy_log'.lines =
                        Append(legacy_log.lines, <<f[1], f[2], "t8", f[3]>>)
                /\ RUN_LOG_ENTRIES' =
                        Append(RUN_LOG_ENTRIES,
                               LoggedEntry(f[1], f[2], f[3], c))
                /\ ~last'.raised
        /\ (RUN_LOG_ENTRIES' # RUN_LOG_ENTRIES \/ mgr' # mgr) =>
            Len(legacy_log'.lines) = Len(legacy_log.lines) + 1]_vars

\* a subtitle was logged and buffered while its record_entry raised: the
\* queue of the manager does not have it
C36_Witness ==
    /\ last.op = "log_processed_file"
    /\ last.wrote
    /\ RUN_LOG_ENTRIES # <<>>
    /\ CategoryOf(RUN_LOG_ENTRIES[Len(RUN_LOG_ENTRIES)]) = "subtitle"
    /\ legacy_log.lines # <<>>
    /\ \A k \in DOMAIN mgr[1].pending_entries :
            CategoryOf(mgr[1].pending_entries[k]) # "subtitle"

\* the names of the entries whose line was appended with a signature
AppendedNames ==
    UNION {NamesOf(added[k].entry) :
            k \in {j \in DOMAIN added :
                      added[j].wrote /\ SigOf(added[j].entry) # ""}}

\* C37: an add_entry whose append fails writes nothing to the log file,
\* returns its entry and puts it into both indexes, so that the object
\* knows the signature and both names; an object constructed afterwards
\* and loaded does not know the signature or a name of an entry whose
\* append failed, unless a line that was appended has it or the index
\* file has it; and only save_index changes the index file.
C37_FailedAppendStaysInMemory ==
    [][/\ (last'.op = "add_entry" /\ ~last'.wrote /\ ~last'.raised) =>
            /\ history_file' = history_file
            /\ Len(last'.val) = 1
            /\ get_by_signature(by_signature'[last'.inst],
                                SigOf(last'.val[1])) = last'.val
            /\ \A n \in NamesOf(last'.val[1]) :
                  /\ has_name(by_name'[last'.inst], n)
                  /\ by_name'[last'.inst][n] = SigOf(last'.val[1])
       /\ (last.op = "__init__" /\ last'.op = "load"
                /\ last'.inst = last.inst) =>
            \A k \in {j \in DOMAIN added : ~added[j].wrote} :
                /\ ( /\ SigOf(added[k].entry) \notin AppendedSignatures
                     /\ SigOf(added[k].entry)
                            \notin DOMAIN index_file.by_signature ) =>
                        ~has_signature(by_signature'[last'.inst],
                                       SigOf(added[k].entry))
                /\ \A n \in NamesOf(added[k].entry) :
                     ( /\ n \notin AppendedNames
                       /\ n \notin DOMAIN index_file.by_name ) =>
                        ~has_name(by_name'[last'.inst], n)
       /\ index_file' # index_file => last'.op = "save_index"]_vars

\* object 1 knows an entry whose append failed; object 2, constructed and
\* loaded afterwards, does not know its signature or its names
C37_Witness ==
    /\ last.op = "load"
    /\ last.inst = 2
    /\ loaded[1] /\ loaded[2]
    /\ Len(added) = 1
    /\ ~added[1].wrote
    /\ added[1].inst = 1
    /\ SigOf(added[1].entry) = "s1"
    /\ has_signature(by_signature[1], "s1")
    /\ has_name(by_name[1], "a")
    /\ ~has_signature(by_signature[2], "s1")
    /\ ~has_name(by_name[2], "a")

\* C38: the two name lookups agree: on every loaded object has_name(n) is
\* true exactly when get_by_name(n) returns an entry, every name of
\* by_name mapping to a signature that is a key of by_signature.
C38_NameLookupsAgree ==
    \A i \in Inst : loaded[i] =>
        \A n \in DOMAIN by_name[i] \cup Names :
            /\ has_name(by_name[i], n)
                <=> get_by_name(by_signature[i], by_name[i], n) # <<>>
            /\ has_name(by_name[i], n) =>
                has_signature(by_signature[i], by_name[i][n])

\* the lookups agree on every name that maps to a signature that is not
\* empty
C38_NameLookupsAgreeWithSignature ==
    \A i \in Inst : loaded[i] =>
        \A n \in DOMAIN by_name[i] :
            /\ has_signature(by_signature[i], by_name[i][n])
            /\ by_name[i][n] # "" =>
                get_by_name(by_signature[i], by_name[i], n) # <<>>

\* C39: whenever get_by_name(n) returns an entry on a loaded object, n is
\* the old_name or the new_name of that entry.
C39_GetByNameReturnsNamedEntry ==
    \A i \in Inst : loaded[i] =>
        \A n \in DOMAIN by_name[i] :
            \A e \in {get_by_name(by_signature[i], by_name[i], n)} :
                e # <<>> => n \in NamesOf(e[1])

\* every add_entry so far appended its line, with a signature and names
\* that are not empty; signatures and names may repeat
AllAppendedWithSignature ==
    \A k \in DOMAIN added :
        /\ added[k].wrote
        /\ SigOf(added[k].entry) # ""
        /\ "" \notin NamesOf(added[k].entry)

\* C40: memory and disk stay equivalent: when every add_entry so far has
\* appended its line with a non-empty signature and non-empty names, with
\* save_index run at any time or never, the indexes that a new object
\* builds by load() from the files are equal to by_signature and by_name
\* of the writing object.
C40_MemoryEqualsDisk ==
    [][\A i \in Inst \ Writers, w \in Writers :
          ( /\ ~loaded[i]
            /\ loaded'[i]
            /\ loaded[w]
            /\ AllAppendedWithSignature ) =>
                /\ by_signature'[i] = by_signature[w]
                /\ by_name'[i] = by_name[w]]_vars

\* a new object has loaded what the writer holds after two appends that
\* reuse a name, past an index file that was written between them and
\* holds the first signature for the name
C40_Witness ==
    /\ last.op \in {"load", "lookup"}
    /\ last.inst = 2
    /\ loaded[1] /\ loaded[2]
    /\ AllAppendedWithSignature
    /\ Len(added) = 2
    /\ index_file.exists
    /\ "a" \in DOMAIN index_file.by_name
    /\ index_file.by_name["a"] # by_name[1]["a"]
    /\ by_signature[2] = by_signature[1]
    /\ by_name[2] = by_name[1]

=============================================================================
